---------------------------- MODULE Spec2Model ----------------------------
(***************************************************************************)
(* Model of the v4l2r stateful decoder control plane:                      *)
(*   src/src/device/queue.rs     - Queue, per-buffer state, BufferStateFuse *)
(*   src/src/decoder/stateful.rs - Decoder session and DecoderThread        *)
(*                                                                         *)
(* Five specifications share one initial state:                            *)
(*   QueueSpec  - one queue driven by an arbitrary client of its API        *)
(*   RaceSpec   - one queue, try_get_free_buffer taken lock by lock while   *)
(*                another thread drops DQBuffers                            *)
(*   Spec       - the decoder session, its worker thread and the driver     *)
(*   DeviceSpec - the registry of borrowed queue types of one device        *)
(*   OpenSpec   - Decoder::open on devices of any description               *)
(***************************************************************************)
EXTENDS Integers, Sequences, FiniteSets, TLC

\* ------------------------------------------------------------------ bounds
\* Largest number of buffers the driver grants to one allocation.
MaxBuffers == 2
\* Number of request_buffers calls the queue client makes in QueueSpec.
MaxAllocs == 2
\* Distinct plane-handle values a client supplies.
MaxHandle == 2

\* ------------------------------------------------------------ buffer state
NoHandles == 0

Free == [st |-> "Free", plane_handles |-> NoHandles]

PreQueue == [st |-> "PreQueue", plane_handles |-> NoHandles]

Queued(plane_handles) == [st |-> "Queued", plane_handles |-> plane_handles]

Dequeued == [st |-> "Dequeued", plane_handles |-> NoHandles]

\* ------------------------------------------------------------------- queue
\* A queue value: its typestate, the Arc identity of its buffer states
\* (alloc), the per-buffer table and the queued counter.
QueueInit == [state |-> "Init", alloc |-> 0, buffer_info |-> [i \in {} |-> Free], num_queued_buffers |-> 0]

request_buffers(q, num_buffers, alloc) ==
    [state |-> "BuffersAllocated", alloc |-> alloc,
     buffer_info |-> [i \in 0 .. (num_buffers - 1) |-> Free],
     num_queued_buffers |-> 0]

free_buffers(q) == QueueInit

num_buffers(q) == Cardinality(DOMAIN q.buffer_info)

num_queued_buffers(q) == q.num_queued_buffers

CountState(q, st) == Cardinality({i \in DOMAIN q.buffer_info : q.buffer_info[i].st = st})

\* Increasing-index sequence of the CanceledBuffer records of the buffers in s.
RECURSIVE CanceledOf(_, _)
CanceledOf(q, s) ==
    IF s = {} THEN <<>>
    ELSE LET i == CHOOSE x \in s : \A y \in s : x <= y
         IN <<[index |-> i, plane_handles |-> q.buffer_info[i].plane_handles]>>
              \o CanceledOf(q, s \ {i})

\* Mutant of stream_off: every buffer is reported as canceled, whatever its
\* state.
stream_off_cancels_all(q, ok) ==
    IF ~ok THEN [err |-> "StreamOffError", queue |-> q, canceled |-> <<>>]
    ELSE LET queued == {i \in DOMAIN q.buffer_info : q.buffer_info[i].st = "Queued"}
         IN [err |-> "Ok",
             queue |-> [q EXCEPT !.buffer_info = [i \in DOMAIN q.buffer_info |->
                                       IF i \in queued THEN Free ELSE q.buffer_info[i]],
                                 !.num_queued_buffers = q.num_queued_buffers - Cardinality(queued)],
             canceled |-> CanceledOf(q, DOMAIN q.buffer_info)]

\* Mutant of stream_off: every buffer is returned to Free, also those a
\* client holds.
stream_off_frees_all(q, ok) ==
    IF ~ok THEN [err |-> "StreamOffError", queue |-> q, canceled |-> <<>>]
    ELSE LET queued == {i \in DOMAIN q.buffer_info : q.buffer_info[i].st = "Queued"}
             canceled_buffers == CanceledOf(q, queued)
         IN [err |-> "Ok",
             queue |-> [q EXCEPT !.buffer_info = [i \in DOMAIN q.buffer_info |-> Free],
                                 !.num_queued_buffers = q.num_queued_buffers - Len(canceled_buffers)],
             canceled |-> canceled_buffers]

\* Mutant of stream_off: the buffers are canceled before the ioctl is tried.
stream_off_before_ioctl(q, ok) ==
    LET queued == {i \in DOMAIN q.buffer_info : q.buffer_info[i].st = "Queued"}
        canceled_buffers == CanceledOf(q, queued)
    IN [err |-> IF ok THEN "Ok" ELSE "StreamOffError",
        queue |-> [q EXCEPT !.buffer_info = [i \in DOMAIN q.buffer_info |->
                                  IF i \in queued THEN Free ELSE q.buffer_info[i]],
                            !.num_queued_buffers = q.num_queued_buffers - Len(canceled_buffers)],
        canceled |-> IF ok THEN canceled_buffers ELSE <<>>]

\* Mutant of stream_off: the queued counter is not decremented.
stream_off_keeps_counter(q, ok) ==
    IF ~ok THEN [err |-> "StreamOffError", queue |-> q, canceled |-> <<>>]
    ELSE LET queued == {i \in DOMAIN q.buffer_info : q.buffer_info[i].st = "Queued"}
         IN [err |-> "Ok",
             queue |-> [q EXCEPT !.buffer_info = [i \in DOMAIN q.buffer_info |->
                                       IF i \in queued THEN Free ELSE q.buffer_info[i]]],
             canceled |-> CanceledOf(q, queued)]

\* stream_off: ok is the outcome of the STREAMOFF ioctl.
stream_off(q, ok) ==
    IF ~ok THEN [err |-> "StreamOffError", queue |-> q, canceled |-> <<>>]
    ELSE LET queued == {i \in DOMAIN q.buffer_info : q.buffer_info[i].st = "Queued"}
             canceled_buffers == CanceledOf(q, queued)
         IN [err |-> "Ok",
             queue |-> [q EXCEPT !.buffer_info = [i \in DOMAIN q.buffer_info |->
                                       IF i \in queued THEN Free ELSE q.buffer_info[i]],
                                 !.num_queued_buffers = q.num_queued_buffers - Len(canceled_buffers)],
             canceled |-> canceled_buffers]

\* Mutant of try_dequeue: a buffer with the error flag is handed back without
\* being taken off the queue.
try_dequeue_skips_corrupted(q, dqbuf) ==
    IF dqbuf.kind \in {"EOS", "NotReady", "IoctlError"}
    THEN [err |-> dqbuf.kind, queue |-> q, index |-> 0, plane_handles |-> NoHandles]
    ELSE LET id == dqbuf.index
         IN IF id \notin DOMAIN q.buffer_info \/ q.buffer_info[id].st # "Queued"
            THEN [err |-> "Panic", queue |-> q, index |-> id, plane_handles |-> NoHandles]
            ELSE IF dqbuf.kind = "CorruptedBuffer"
            THEN [err |-> "CorruptedBuffer", queue |-> q, index |-> id,
                  plane_handles |-> NoHandles]
            ELSE
            [err |-> "Ok",
             queue |-> [q EXCEPT !.buffer_info[id] = Dequeued,
                                 !.num_queued_buffers = q.num_queued_buffers - 1],
             index |-> id,
             plane_handles |-> q.buffer_info[id].plane_handles]

\* try_dequeue: dqbuf is the result of the DQBUF ioctl, [kind, index].
try_dequeue(q, dqbuf) ==
    IF dqbuf.kind \in {"EOS", "NotReady", "IoctlError"}
    THEN [err |-> dqbuf.kind, queue |-> q, index |-> 0, plane_handles |-> NoHandles]
    ELSE LET id == dqbuf.index
         IN IF id \notin DOMAIN q.buffer_info \/ q.buffer_info[id].st # "Queued"
            THEN [err |-> "Panic", queue |-> q, index |-> id, plane_handles |-> NoHandles]
            ELSE
            [err |-> IF dqbuf.kind = "CorruptedBuffer" THEN "CorruptedBuffer" ELSE "Ok",
             queue |-> [q EXCEPT !.buffer_info[id] = Dequeued,
                                 !.num_queued_buffers = q.num_queued_buffers - 1],
             index |-> id,
             plane_handles |-> q.buffer_info[id].plane_handles]

\* Mutant of try_get_buffer: only a buffer the driver holds counts as used.
try_get_buffer_only_queued(q, index) ==
    IF index \notin DOMAIN q.buffer_info
    THEN [err |-> "InvalidIndex", queue |-> q, index |-> index]
    ELSE IF q.buffer_info[index].st = "Queued"
    THEN [err |-> "AlreadyUsed", queue |-> q, index |-> index]
    ELSE [err |-> "Ok", queue |-> [q EXCEPT !.buffer_info[index] = PreQueue], index |-> index]

\* Mutant of try_get_buffer: the state of the buffer is not tested.
try_get_buffer_unchecked(q, index) ==
    IF index \notin DOMAIN q.buffer_info
    THEN [err |-> "InvalidIndex", queue |-> q, index |-> index]
    ELSE [err |-> "Ok", queue |-> [q EXCEPT !.buffer_info[index] = PreQueue], index |-> index]

try_get_buffer(q, index) ==
    IF index \notin DOMAIN q.buffer_info
    THEN [err |-> "InvalidIndex", queue |-> q, index |-> index]
    ELSE IF q.buffer_info[index].st # "Free"
    THEN [err |-> "AlreadyUsed", queue |-> q, index |-> index]
    ELSE [err |-> "Ok", queue |-> [q EXCEPT !.buffer_info[index] = PreQueue], index |-> index]

\* Mutant of try_get_free_buffer: the scan runs from the last buffer down.
try_get_free_buffer_from_last(q) ==
    LET free == {i \in DOMAIN q.buffer_info : q.buffer_info[i].st = "Free"}
    IN IF free = {} THEN [err |-> "NoFreeBuffer", queue |-> q, index |-> 0]
       ELSE try_get_buffer(q, CHOOSE i \in free : \A j \in free : i >= j)

try_get_free_buffer(q) ==
    LET free == {i \in DOMAIN q.buffer_info : q.buffer_info[i].st = "Free"}
    IN IF free = {} THEN [err |-> "NoFreeBuffer", queue |-> q, index |-> 0]
       ELSE try_get_buffer(q, CHOOSE i \in free : \A j \in free : i <= j)

\* -------------------------------------------------------- BufferStateFuse
\* A Weak reference to the state cell of buffer `index` of allocation `alloc`.
WeakNew == [alloc |-> 0, index |-> 0]

downgrade(q, index) == [alloc |-> q.alloc, index |-> index]

\* Mutant of upgrade: a strong reference by index, alive with any allocation.
upgrade_by_index(q, weak) ==
    /\ q.state = "BuffersAllocated"
    /\ weak.alloc # 0
    /\ weak.index \in DOMAIN q.buffer_info

\* Weak::upgrade succeeds while the Arc of that allocation is alive.
upgrade(q, weak) ==
    /\ q.state = "BuffersAllocated"
    /\ weak.alloc # 0
    /\ weak.alloc = q.alloc

BufferStateFuse(weak) == [buffer_state |-> weak]

disarm(fuse) == [buffer_state |-> WeakNew]

\* Mutant of trigger: the drop of a handle also updates the queued counter.
trigger_counting(q, fuse) ==
    IF upgrade(q, fuse.buffer_state)
    THEN [q EXCEPT !.buffer_info[fuse.buffer_state.index] = Free,
                   !.num_queued_buffers = @ + 1]
    ELSE q

\* trigger, as run by Drop for BufferStateFuse.
trigger(q, fuse) ==
    IF upgrade(q, fuse.buffer_state)
    THEN [q EXCEPT !.buffer_info[fuse.buffer_state.index] = Free]
    ELSE q

\* ------------------------------------------------------- QBuffer (qbuf.rs)
\* Submit of a QBuffer: ok is the outcome of the QBUF ioctl.  On success the
\* state becomes Queued(handles), the counter is incremented and the fuse is
\* disarmed; on failure the fuse returns the buffer to Free.
queue_with_handles(q, index, plane_handles, ok) ==
    LET fuse == BufferStateFuse(downgrade(q, index))
    IN IF ok
       THEN trigger([q EXCEPT !.buffer_info[index] = Queued(plane_handles),
                              !.num_queued_buffers = q.num_queued_buffers + 1],
                    disarm(fuse))
       ELSE trigger(q, fuse)

\* Mutant of drop_qbuffer: the fuse is disarmed before the drop.
drop_qbuffer_disarmed(q, index) == trigger(q, disarm(BufferStateFuse(downgrade(q, index))))

\* Drop of a QBuffer that was never submitted.
drop_qbuffer(q, index) == trigger(q, BufferStateFuse(downgrade(q, index)))

\* =========================================================================
\* QueueSpec: one queue, its driver side, and a client that calls the queue
\* API in any order the borrow rules allow.
\* =========================================================================
VARIABLES
    queue,        \* the Queue value
    q_driver,     \* driver side: [streaming, done]; done is the FIFO of completed buffers
    q_qbufs,      \* live QBuffer handles per buffer index
    q_dqbufs,     \* live DQBuffer handles per <<alloc, index>>
    q_allocs,     \* request_buffers calls made so far
    q_last        \* the last operation and what it returned

qvars == <<queue, q_driver, q_qbufs, q_dqbufs, q_allocs, q_last>>

VARIABLES
    phase,          \* typestate of the Decoder session
    cpc,            \* where the client thread is inside a session call
    output_queue,   \* Decoding.output_queue
    o_driver,       \* driver side of the OUTPUT queue
    o_qbufs,        \* live OutputBuffer (QBuffer) handles per index
    o_mut,          \* TRUE while a handle returned by get_buffer borrows the session mutably
    o_dqbufs,       \* live OUTPUT DQBuffers carried by a returned error, per index
    o_submitted,    \* OUTPUT buffers submitted so far
    o_dequeued,     \* plane handles of every OUTPUT buffer the session dequeued, in order
    input_done,     \* plane handles passed to input_done_cb, in order
    wpc,            \* where the worker thread is in DecoderThread::run
    wevents,        \* PollEvents of the worker's last poll
    capture_queue,  \* DecoderThread.capture_queue
    c_driver,       \* driver side of the CAPTURE queue
    c_allocs,       \* CAPTURE allocations made so far
    c_completed,    \* CAPTURE buffers the driver completed so far
    poller,         \* DecoderThread.poller: [enabled, woken]
    events_pending, \* events queued by the driver, oldest first
    ev_emitted,     \* events emitted so far
    c_dqbufs,       \* live CAPTURE DQBuffers the client holds, per <<alloc, index>>
    c_frame,        \* the CAPTURE buffer the worker dequeued last
    stop_log,       \* the steps stop() has taken
    stop_in         \* the CaptureQueue variant the worker had when stop() was called

dvars == <<phase, cpc, output_queue, o_driver, o_qbufs, o_mut, o_dqbufs, o_submitted,
           o_dequeued, input_done, wpc, wevents, capture_queue, c_driver, c_allocs,
           c_completed, poller, events_pending, ev_emitted, c_dqbufs, c_frame, stop_log,
           stop_in>>

VARIABLES
    used_queues,  \* Device.used_queues: the queue types borrowed from one device
    d_queues,     \* live Queue objects of that device, per queue type
    d_last,       \* the last create or drop on that device and what it returned
    opened        \* the arguments and the result of the last Decoder::open

devvars == <<used_queues, d_queues, d_last, opened>>

VARIABLES
    q_scan        \* where a try_get_free_buffer call in progress is: [pc, pos]

svars == <<q_scan>>

vars == <<qvars, dvars, devvars, svars>>

client_vars == <<phase, cpc, stop_log, stop_in>>

output_vars == <<output_queue, o_driver, o_qbufs, o_mut, o_dqbufs, o_submitted, o_dequeued, input_done>>

worker_vars == <<wpc, wevents, capture_queue, c_driver, c_allocs, poller, c_frame>>

Indices == 0 .. (MaxBuffers - 1)

Handles == 1 .. MaxHandle

NoOp == [op |-> "none", index |-> 0, err |-> "Ok", plane_handles |-> NoHandles,
         canceled |-> <<>>, weak |-> WeakNew]

QInit ==
    /\ queue = QueueInit
    /\ q_driver = [streaming |-> FALSE, done |-> <<>>]
    /\ q_qbufs = [i \in 0 .. MaxBuffers |-> 0]
    /\ q_dqbufs = [w \in (1 .. MaxAllocs) \X Indices |-> 0]
    /\ q_allocs = 0
    /\ q_last = NoOp

\* The results the DQBUF ioctl can give: the oldest completed buffer, plain
\* or with the error flag, or nothing.
dqbuf(driver) ==
    IF driver.done # <<>>
    THEN {[kind |-> k, index |-> Head(driver.done)] : k \in {"Ok", "CorruptedBuffer"}}
             \cup {[kind |-> "IoctlError", index |-> 0]}
    ELSE {[kind |-> k, index |-> 0] : k \in {"NotReady", "EOS", "IoctlError"}}

\* What DQBUF removes from the driver's FIFO.
after_dqbuf(driver, r) ==
    IF r.kind \in {"Ok", "CorruptedBuffer"} THEN [driver EXCEPT !.done = Tail(driver.done)]
    ELSE driver

InSeq(x, s) == \E k \in 1 .. Len(s) : s[k] = x

QRequestBuffers(n) ==
    /\ queue.state = "Init"
    /\ q_allocs < MaxAllocs
    /\ q_allocs' = q_allocs + 1
    /\ queue' = request_buffers(queue, n, q_allocs + 1)
    /\ q_last' = [NoOp EXCEPT !.op = "request_buffers"]
    /\ UNCHANGED <<dvars, devvars, svars, q_driver, q_qbufs, q_dqbufs>>

\* free_buffers consumes the queue, so no QBuffer (which borrows it) is live;
\* DQBuffers hold no borrow and may outlive the allocation.
QFreeBuffers ==
    /\ queue.state = "BuffersAllocated"
    /\ ~q_driver.streaming
    /\ \A i \in DOMAIN q_qbufs : q_qbufs[i] = 0
    /\ queue' = free_buffers(queue)
    /\ q_driver' = [streaming |-> FALSE, done |-> <<>>]
    /\ q_last' = [NoOp EXCEPT !.op = "free_buffers"]
    /\ UNCHANGED <<dvars, devvars, svars, q_qbufs, q_dqbufs, q_allocs>>

QStreamOn ==
    /\ queue.state = "BuffersAllocated"
    /\ ~q_driver.streaming
    /\ q_driver' = [q_driver EXCEPT !.streaming = TRUE]
    /\ q_last' = [NoOp EXCEPT !.op = "stream_on"]
    /\ UNCHANGED <<dvars, devvars, svars, queue, q_qbufs, q_dqbufs, q_allocs>>

QStreamOff(ok) ==
    /\ queue.state = "BuffersAllocated"
    /\ LET r == stream_off(queue, ok)
       IN /\ queue' = r.queue
          /\ q_driver' = IF ok THEN [streaming |-> FALSE, done |-> <<>>] ELSE q_driver
          /\ q_last' = [NoOp EXCEPT !.op = "stream_off", !.err = r.err, !.canceled = r.canceled]
    /\ UNCHANGED <<dvars, devvars, svars, q_qbufs, q_dqbufs, q_allocs>>

QTryGetBuffer(index) ==
    /\ queue.state = "BuffersAllocated"
    /\ LET r == try_get_buffer(queue, index)
       IN /\ queue' = r.queue
          /\ q_qbufs' = IF r.err = "Ok" THEN [q_qbufs EXCEPT ![index] = @ + 1] ELSE q_qbufs
          /\ q_last' = [NoOp EXCEPT !.op = "try_get_buffer", !.index = index, !.err = r.err]
    /\ UNCHANGED <<dvars, devvars, svars, q_driver, q_dqbufs, q_allocs>>

QTryGetFreeBuffer ==
    /\ queue.state = "BuffersAllocated"
    /\ LET r == try_get_free_buffer(queue)
       IN /\ queue' = r.queue
          /\ q_qbufs' = IF r.err = "Ok" THEN [q_qbufs EXCEPT ![r.index] = @ + 1] ELSE q_qbufs
          /\ q_last' = [NoOp EXCEPT !.op = "try_get_free_buffer", !.index = r.index, !.err = r.err]
    /\ UNCHANGED <<dvars, devvars, svars, q_driver, q_dqbufs, q_allocs>>

\* The client submits one of its QBuffers.
QQueueWithHandles(index, h, ok) ==
    /\ queue.state = "BuffersAllocated"
    /\ q_qbufs[index] > 0
    /\ queue' = queue_with_handles(queue, index, h, ok)
    /\ q_qbufs' = [q_qbufs EXCEPT ![index] = @ - 1]
    /\ q_last' = [NoOp EXCEPT !.op = "queue_with_handles", !.index = index,
                              !.err = IF ok THEN "Ok" ELSE "QBufError",
                              !.plane_handles = IF ok THEN NoHandles ELSE h]
    /\ UNCHANGED <<dvars, devvars, svars, q_driver, q_dqbufs, q_allocs>>

\* The client drops one of its QBuffers without submitting it.
QDropQBuffer(index) ==
    /\ queue.state = "BuffersAllocated"
    /\ q_qbufs[index] > 0
    /\ queue' = drop_qbuffer(queue, index)
    /\ q_qbufs' = [q_qbufs EXCEPT ![index] = @ - 1]
    /\ q_last' = [NoOp EXCEPT !.op = "drop_qbuffer", !.index = index]
    /\ UNCHANGED <<dvars, devvars, svars, q_driver, q_dqbufs, q_allocs>>

\* The driver finishes with a queued buffer.
QDriverDone(index) ==
    /\ queue.state = "BuffersAllocated"
    /\ q_driver.streaming
    /\ index \in DOMAIN queue.buffer_info
    /\ queue.buffer_info[index].st = "Queued"
    /\ ~InSeq(index, q_driver.done)
    /\ q_driver' = [q_driver EXCEPT !.done = Append(@, index)]
    /\ q_last' = [NoOp EXCEPT !.op = "driver_done", !.index = index]
    /\ UNCHANGED <<dvars, devvars, svars, queue, q_qbufs, q_dqbufs, q_allocs>>

QTryDequeue(r) ==
    /\ queue.state = "BuffersAllocated"
    /\ r \in dqbuf(q_driver)
    /\ LET d == try_dequeue(queue, r)
       IN /\ queue' = d.queue
          /\ q_dqbufs' = IF d.err \in {"Ok", "CorruptedBuffer"}
                         THEN [q_dqbufs EXCEPT ![<<queue.alloc, d.index>>] = @ + 1]
                         ELSE q_dqbufs
          /\ q_last' = [NoOp EXCEPT !.op = "try_dequeue", !.index = d.index, !.err = d.err,
                                    !.plane_handles = d.plane_handles,
                                    !.weak = IF d.err \in {"Ok", "CorruptedBuffer"}
                                             THEN downgrade(queue, d.index) ELSE WeakNew]
    /\ q_driver' = after_dqbuf(q_driver, r)
    /\ UNCHANGED <<dvars, devvars, svars, q_qbufs, q_allocs>>

\* The client drops a DQBuffer: its fuse triggers.
QDropDQBuffer(w) ==
    /\ q_dqbufs[w] > 0
    /\ LET weak == [alloc |-> w[1], index |-> w[2]]
       IN /\ queue' = trigger(queue, BufferStateFuse(weak))
          /\ q_last' = [NoOp EXCEPT !.op = "drop_dqbuffer", !.index = w[2], !.weak = weak]
    /\ q_dqbufs' = [q_dqbufs EXCEPT ![w] = @ - 1]
    /\ UNCHANGED <<dvars, devvars, svars, q_driver, q_qbufs, q_allocs>>

QNext ==
    \/ \E n \in 1 .. MaxBuffers : QRequestBuffers(n)
    \/ QFreeBuffers
    \/ QStreamOn
    \/ \E ok \in BOOLEAN : QStreamOff(ok)
    \/ \E index \in 0 .. MaxBuffers : QTryGetBuffer(index)
    \/ QTryGetFreeBuffer
    \/ \E index \in Indices, h \in Handles, ok \in BOOLEAN : QQueueWithHandles(index, h, ok)
    \/ \E index \in Indices : QDropQBuffer(index)
    \/ \E index \in Indices : QDriverDone(index)
    \/ \E r \in dqbuf(q_driver) : QTryDequeue(r)
    \/ \E w \in DOMAIN q_dqbufs : QDropDQBuffer(w)


\* =========================================================================
\* Spec: the decoder session (client thread), the DecoderThread (worker
\* thread) and the driver.  Driver faults are the ones the decoder's own
\* contract names: a buffer returned with the error flag, a failing
\* resolution update, a refused Stop command and a failing start.
\* =========================================================================

\* Largest number of OUTPUT buffers the driver grants.
MaxOutputBuffers == 2
\* Largest number of CAPTURE buffers the driver grants.
MaxCaptureBuffers == 2
\* OUTPUT buffers the client submits in one run.
MaxSubmit == 2
\* CAPTURE buffers the driver completes in one run.
MaxFrames == 2
\* Source-change events the driver emits in one run.
MaxEvents == 2

\* The count update_capture_resolution asks for.
CaptureBufferCount == 4

OutputIndices == 0 .. (MaxOutputBuffers - 1)

CaptureIndices == 0 .. (MaxCaptureBuffers - 1)

IdleDriver == [streaming |-> FALSE, done |-> <<>>]

\* A queue whose owner was dropped: its buffer states are gone, so that no
\* Weak reference to them upgrades; the table is kept as it was left.
dropped(q) == [q EXCEPT !.state = "Dropped"]

\* A dequeued CAPTURE buffer: its index, the flags the driver put on it, and
\* whether output_ready_cb was called with it.
Frame(index, flags, delivered) ==
    [dequeued |-> TRUE, index |-> index, last |-> flags.last, empty |-> flags.empty,
     corrupted |-> flags.corrupted, delivered |-> delivered]

NoFrame == [dequeued |-> FALSE, index |-> 0, last |-> FALSE, empty |-> FALSE,
            corrupted |-> FALSE, delivered |-> FALSE]

\* The state after Decoder::open succeeded.
DInit ==
    /\ phase = "AwaitingOutputFormat"
    /\ cpc = "idle"
    /\ output_queue = QueueInit
    /\ o_driver = IdleDriver
    /\ o_qbufs = [i \in OutputIndices |-> 0]
    /\ o_mut = FALSE
    /\ o_dqbufs = [i \in OutputIndices |-> 0]
    /\ o_submitted = 0
    /\ o_dequeued = <<>>
    /\ input_done = <<>>
    /\ wpc = "none"
    /\ wevents = {}
    /\ capture_queue = QueueInit
    /\ c_driver = IdleDriver
    /\ c_allocs = 0
    /\ c_completed = 0
    /\ poller = [enabled |-> {}, woken |-> FALSE]
    /\ events_pending = <<>>
    /\ ev_emitted = 0
    /\ c_dqbufs = [w \in (1 .. MaxEvents) \X CaptureIndices |-> 0]
    /\ c_frame = NoFrame
    /\ stop_log = <<>>
    /\ stop_in = "none"

\* reqbufs: the driver grants at most what it can provide.
reqbufs(count, granted) == IF count < granted THEN count ELSE granted

\* --------------------------------------------------------- session phases
set_output_format(ok) ==
    /\ phase = "AwaitingOutputFormat"
    /\ phase' = IF ok THEN "AwaitingOutputBuffers" ELSE "Failed"
    /\ UNCHANGED <<qvars, devvars, svars, cpc, stop_log, stop_in, output_vars, worker_vars, c_completed, events_pending,
                   ev_emitted, c_dqbufs>>

allocate_output_buffers(n, granted) ==
    /\ phase = "AwaitingOutputBuffers"
    /\ phase' = "OutputBuffersAllocated"
    /\ output_queue' = request_buffers(output_queue, reqbufs(n, granted), 1)
    /\ UNCHANGED <<qvars, devvars, svars, cpc, stop_log, stop_in, o_driver, o_qbufs, o_mut, o_dqbufs, o_submitted, o_dequeued,
                   input_done, worker_vars, c_completed, events_pending, ev_emitted, c_dqbufs>>

\* DecoderThread::new: the poller starts with V4L2Event only.
DecoderThread_new == [enabled |-> {"V4L2Event"}, woken |-> FALSE]

\* start: res is where the first failing step is, or "Ok".
start(res) ==
    /\ phase = "OutputBuffersAllocated"
    /\ IF res \in {"SubscribeEventError", "IoError"}
       THEN \* failed before the thread was spawned
            /\ phase' = "Failed"
            /\ UNCHANGED <<wpc, poller, o_driver>>
       ELSE /\ wpc' = "top"
            /\ poller' = DecoderThread_new
            /\ IF res = "StreamOnError"
               THEN phase' = "Failed" /\ UNCHANGED o_driver
               ELSE phase' = "Decoding" /\ o_driver' = [o_driver EXCEPT !.streaming = TRUE]
    /\ UNCHANGED <<qvars, devvars, svars, cpc, stop_log, stop_in, output_queue, o_qbufs, o_mut, o_dqbufs, o_submitted, o_dequeued,
                   input_done, wevents, capture_queue, c_driver, c_allocs, c_frame,
                   c_completed, events_pending, ev_emitted, c_dqbufs>>


\* ------------------------------------------------- OUTPUT side, Decoding
\* DQBUF on a working device: the oldest completed buffer, with the error
\* flag if the driver marked it (corrupted), or NotReady.
dqbuf_of(driver, corrupted) ==
    IF driver.done = <<>> THEN [kind |-> "NotReady", index |-> 0]
    ELSE [kind |-> IF Head(driver.done) \in corrupted THEN "CorruptedBuffer" ELSE "Ok",
          index |-> Head(driver.done)]

SeqRange(s) == {s[k] : k \in 1 .. Len(s)}

Drained(q, driver) == [err |-> "Ok", queue |-> q, driver |-> driver, cb |-> <<>>,
                       dequeued |-> <<>>, held |-> {}]

\* dequeue_output_buffers: cb are the handles given to input_done_cb,
\* dequeued the handles of all buffers dequeued, held the buffer whose
\* DQBuffer leaves inside the returned error.
RECURSIVE Decoder_dequeue_output_buffers(_, _, _)
Decoder_dequeue_output_buffers(q, driver, corrupted) ==
    IF num_queued_buffers(q) > 0
    THEN LET r == dqbuf_of(driver, corrupted)
             d == try_dequeue(q, r)
         IN CASE d.err = "Ok" ->
                   \* input_done_cb runs, then buf is dropped: its fuse triggers
                   LET rest == Decoder_dequeue_output_buffers(
                                   trigger(d.queue, BufferStateFuse(downgrade(q, d.index))),
                                   after_dqbuf(driver, r), corrupted)
                   IN [rest EXCEPT !.cb = <<d.plane_handles>> \o @,
                                   !.dequeued = <<d.plane_handles>> \o @]
              [] d.err = "NotReady" -> Drained(q, driver)
              [] OTHER ->
                   [err |-> d.err, queue |-> d.queue, driver |-> after_dqbuf(driver, r),
                    cb |-> <<>>, dequeued |-> <<d.plane_handles>>, held |-> {d.index}]
    ELSE Drained(q, driver)

\* The loop of the session's try_get_free_buffer:
\*   while self.state.output_queue.try_dequeue().is_ok() {}
RECURSIVE Decoder_drain(_, _, _)
Decoder_drain(q, driver, corrupted) ==
    LET r == dqbuf_of(driver, corrupted)
        d == try_dequeue(q, r)
        released == trigger(d.queue, BufferStateFuse(downgrade(q, d.index)))
    IN CASE d.err = "Ok" ->
              LET rest == Decoder_drain(released, after_dqbuf(driver, r), corrupted)
              IN [rest EXCEPT !.dequeued = <<d.plane_handles>> \o @]
         [] d.err = "CorruptedBuffer" ->
              \* is_ok() is false; the error and its DQBuffer are dropped at once
              [queue |-> released, driver |-> after_dqbuf(driver, r),
               dequeued |-> <<d.plane_handles>>]
         [] OTHER -> [queue |-> q, driver |-> driver, dequeued |-> <<>>]

\* GetFreeOutputBuffer::try_get_free_buffer of the session.
Decoder_try_get_free_buffer(q, driver, corrupted) ==
    LET dr == Decoder_drain(q, driver, corrupted)
        g == try_get_free_buffer(dr.queue)
    IN [err |-> g.err, queue |-> g.queue, index |-> g.index, driver |-> dr.driver,
        dequeued |-> dr.dequeued]

NoOutputBufferHeld == \A i \in OutputIndices : o_qbufs[i] = 0

\* get_buffer without the wait: it goes to try_get_free_buffer at once.
get_buffer_no_wait(corrupted) ==
    /\ phase = "Decoding"
    /\ cpc = "idle"
    /\ NoOutputBufferHeld
    /\ LET g == Decoder_try_get_free_buffer(output_queue, o_driver, corrupted)
       IN /\ output_queue' = g.queue
          /\ o_driver' = g.driver
          /\ o_dequeued' = o_dequeued \o g.dequeued
          /\ o_qbufs' = IF g.err = "Ok" THEN [o_qbufs EXCEPT ![g.index] = @ + 1] ELSE o_qbufs
          /\ o_mut' = (g.err = "Ok")
          /\ cpc' = "idle"
    /\ UNCHANGED <<qvars, devvars, svars, phase, stop_log, stop_in, o_dqbufs, o_submitted, input_done, worker_vars,
                   c_completed, events_pending, ev_emitted, c_dqbufs>>

\* get_buffer, up to the point where it returns or blocks in the poller.
get_buffer(corrupted) ==
    /\ phase = "Decoding"
    /\ cpc = "idle"
    /\ NoOutputBufferHeld
    /\ IF num_queued_buffers(output_queue) = num_buffers(output_queue)
       THEN /\ cpc' = "wait_for_output_buffer"
            /\ UNCHANGED <<output_queue, o_driver, o_qbufs, o_mut, o_dequeued>>
       ELSE LET g == Decoder_try_get_free_buffer(output_queue, o_driver, corrupted)
            IN /\ output_queue' = g.queue
               /\ o_driver' = g.driver
               /\ o_dequeued' = o_dequeued \o g.dequeued
               /\ o_qbufs' = IF g.err = "Ok" THEN [o_qbufs EXCEPT ![g.index] = @ + 1] ELSE o_qbufs
               /\ o_mut' = (g.err = "Ok")
               /\ cpc' = "idle"
    /\ UNCHANGED <<qvars, devvars, svars, phase, stop_log, stop_in, o_dqbufs, o_submitted, input_done, worker_vars,
                   c_completed, events_pending, ev_emitted, c_dqbufs>>

\* wait_for_output_buffer returns from poll with DEVICE_OUTPUT, and
\* get_buffer runs to its end.
wait_for_output_buffer(corrupted) ==
    /\ cpc = "wait_for_output_buffer"
    /\ o_driver.done # <<>>
    /\ cpc' = "idle"
    /\ LET w == Decoder_dequeue_output_buffers(output_queue, o_driver, corrupted)
       IN /\ input_done' = input_done \o w.cb
          /\ IF w.err # "Ok"
             THEN /\ output_queue' = w.queue
                  /\ o_driver' = w.driver
                  /\ o_dequeued' = o_dequeued \o w.dequeued
                  /\ o_dqbufs' = [i \in OutputIndices |->
                                    IF i \in w.held THEN o_dqbufs[i] + 1 ELSE o_dqbufs[i]]
                  /\ UNCHANGED <<o_qbufs, o_mut>>
             ELSE LET g == Decoder_try_get_free_buffer(w.queue, w.driver, corrupted)
                  IN /\ output_queue' = g.queue
                     /\ o_driver' = g.driver
                     /\ o_dequeued' = o_dequeued \o w.dequeued \o g.dequeued
                     /\ o_qbufs' = IF g.err = "Ok" THEN [o_qbufs EXCEPT ![g.index] = @ + 1]
                                   ELSE o_qbufs
                     /\ o_mut' = (g.err = "Ok")
                     /\ UNCHANGED o_dqbufs
    /\ UNCHANGED <<qvars, devvars, svars, phase, stop_log, stop_in, o_submitted, worker_vars, c_completed, events_pending,
                   ev_emitted, c_dqbufs>>

\* The session's non-blocking try_get_free_buffer.
Session_try_get_free_buffer(corrupted) ==
    /\ phase = "Decoding"
    /\ cpc = "idle"
    /\ ~o_mut
    /\ LET g == Decoder_try_get_free_buffer(output_queue, o_driver, corrupted)
       IN /\ output_queue' = g.queue
          /\ o_driver' = g.driver
          /\ o_dequeued' = o_dequeued \o g.dequeued
          /\ o_qbufs' = IF g.err = "Ok" THEN [o_qbufs EXCEPT ![g.index] = @ + 1] ELSE o_qbufs
    /\ UNCHANGED <<qvars, devvars, svars, client_vars, o_mut, o_dqbufs, o_submitted, input_done, worker_vars,
                   c_completed, events_pending, ev_emitted, c_dqbufs>>

\* The client fills an OutputBuffer and submits it with fresh plane handles.
OutputBuffer_queue(index) ==
    /\ phase = "Decoding"
    /\ cpc = "idle"
    /\ o_qbufs[index] > 0
    /\ o_submitted < MaxSubmit
    /\ o_submitted' = o_submitted + 1
    /\ output_queue' = queue_with_handles(output_queue, index, o_submitted + 1, TRUE)
    /\ o_qbufs' = [o_qbufs EXCEPT ![index] = @ - 1]
    /\ o_mut' = FALSE
    /\ UNCHANGED <<qvars, devvars, svars, client_vars, o_driver, o_dqbufs, o_dequeued, input_done, worker_vars,
                   c_completed, events_pending, ev_emitted, c_dqbufs>>

\* The client drops an OutputBuffer without submitting it.
OutputBuffer_drop(index) ==
    /\ phase = "Decoding"
    /\ cpc = "idle"
    /\ o_qbufs[index] > 0
    /\ output_queue' = drop_qbuffer(output_queue, index)
    /\ o_qbufs' = [o_qbufs EXCEPT ![index] = @ - 1]
    /\ o_mut' = FALSE
    /\ UNCHANGED <<qvars, devvars, svars, client_vars, o_driver, o_dqbufs, o_submitted, o_dequeued, input_done,
                   worker_vars, c_completed, events_pending, ev_emitted, c_dqbufs>>

\* The client drops the error get_buffer returned, and the DQBuffer in it.
GetBufferError_drop(index) ==
    /\ o_dqbufs[index] > 0
    /\ output_queue' = trigger(output_queue, BufferStateFuse(downgrade(output_queue, index)))
    /\ o_dqbufs' = [o_dqbufs EXCEPT ![index] = @ - 1]
    /\ UNCHANGED <<qvars, devvars, svars, client_vars, o_driver, o_qbufs, o_mut, o_submitted, o_dequeued, input_done,
                   worker_vars, c_completed, events_pending, ev_emitted, c_dqbufs>>

\* The driver is done with a queued OUTPUT buffer.
DriverOutputDone(index) ==
    /\ o_driver.streaming
    /\ index \in DOMAIN output_queue.buffer_info
    /\ output_queue.buffer_info[index].st = "Queued"
    /\ ~InSeq(index, o_driver.done)
    /\ o_driver' = [o_driver EXCEPT !.done = Append(@, index)]
    /\ UNCHANGED <<qvars, devvars, svars, client_vars, output_queue, o_qbufs, o_mut, o_dqbufs, o_submitted, o_dequeued,
                   input_done, worker_vars, c_completed, events_pending, ev_emitted, c_dqbufs>>


\* ------------------------------------------------------------ the poller
enable_event(p, event) == [p EXCEPT !.enabled = @ \cup {event}]

disable_event(p, event) == [p EXCEPT !.enabled = @ \ {event}]

\* Waker::wake, from any thread.
wake(p) == [p EXCEPT !.woken = TRUE]

\* What poll(None) reports; it blocks while this is empty.
poll(p, driver, events) ==
    (IF "CaptureReady" \in p.enabled /\ driver.done # <<>> THEN {"DEVICE_CAPTURE"} ELSE {})
        \cup (IF "V4L2Event" \in p.enabled /\ events # <<>> THEN {"DEVICE_EVENT"} ELSE {})
        \cup (IF p.woken THEN {"WAKER"} ELSE {})

\* ------------------------------------------------------- the DecoderThread
\* The thread's own state, t: [capture_queue, driver, poller, allocs].

\* enqueue_capture_buffers with `if let` for `while let`: one Free buffer is
\* queued.
enqueue_capture_buffers_once(q) ==
    IF q.state # "BuffersAllocated" THEN q
    ELSE LET g == try_get_free_buffer(q)
         IN IF g.err # "Ok" THEN q
            ELSE queue_with_handles(g.queue, g.index, NoHandles, TRUE)

\* enqueue_capture_buffers: every Free buffer is taken and queued with
\* default handles.
RECURSIVE enqueue_capture_buffers(_)
enqueue_capture_buffers(q) ==
    IF q.state # "BuffersAllocated" THEN q
    ELSE LET g == try_get_free_buffer(q)
         IN IF g.err # "Ok" THEN q
            ELSE enqueue_capture_buffers(queue_with_handles(g.queue, g.index, NoHandles, TRUE))

\* update_capture_resolution that leaves the poller's V4L2Event subscription as
\* it was.
update_capture_resolution_keeps_events(t, granted, ok) ==
    LET was_decoding == t.capture_queue.state = "BuffersAllocated"
        freed == IF was_decoding
                 THEN free_buffers(stream_off(t.capture_queue, TRUE).queue)
                 ELSE t.capture_queue
        allocated == request_buffers(freed, reqbufs(CaptureBufferCount, granted), t.allocs + 1)
        p == enable_event(t.poller, "CaptureReady")
    IN IF ~ok
       THEN [err |-> "UpdateCaptureError", t |-> [t EXCEPT !.capture_queue = dropped(freed),
                                                          !.driver = IdleDriver]]
       ELSE [err |-> "Ok",
             t |-> [capture_queue |-> enqueue_capture_buffers(allocated),
                    driver |-> [streaming |-> TRUE, done |-> <<>>],
                    poller |-> p,
                    allocs |-> t.allocs + 1]]

\* update_capture_resolution: granted is the driver's answer to the buffer
\* request, ok whether every fallible step succeeds.
update_capture_resolution(t, granted, ok) ==
    LET was_decoding == t.capture_queue.state = "BuffersAllocated"
        freed == IF was_decoding
                 THEN free_buffers(stream_off(t.capture_queue, TRUE).queue)
                 ELSE t.capture_queue
        allocated == request_buffers(freed, reqbufs(CaptureBufferCount, granted), t.allocs + 1)
        p == disable_event(enable_event(t.poller, "CaptureReady"), "V4L2Event")
    IN IF ~ok
       THEN [err |-> "UpdateCaptureError", t |-> [t EXCEPT !.capture_queue = dropped(freed),
                                                          !.driver = IdleDriver]]
       ELSE [err |-> "Ok",
             t |-> [capture_queue |-> enqueue_capture_buffers(allocated),
                    driver |-> [streaming |-> TRUE, done |-> <<>>],
                    poller |-> p,
                    allocs |-> t.allocs + 1]]

\* process_events: events are the pending events, oldest first; each is the
\* set of SrcChanges it carries.
RECURSIVE process_events(_, _, _, _)
process_events(t, events, granted, ok) ==
    IF events = <<>> THEN [err |-> "Ok", t |-> t]
    ELSE IF "RESOLUTION" \in Head(events)
    THEN LET u == update_capture_resolution(t, granted, ok)
         IN IF u.err # "Ok" THEN u ELSE process_events(u.t, Tail(events), granted, ok)
    ELSE process_events(t, Tail(events), granted, ok)

Thread == [capture_queue |-> capture_queue, driver |-> c_driver, poller |-> poller,
           allocs |-> c_allocs]

\* The handler run() enters after the one named `after`.
NextHandler(events, after) ==
    IF after = "poll" /\ "DEVICE_CAPTURE" \in events THEN "process_capture_buffer"
    ELSE IF after \in {"poll", "process_capture_buffer"} /\ "DEVICE_EVENT" \in events
    THEN "process_events"
    ELSE IF after \in {"poll", "process_capture_buffer", "process_events"} /\ "WAKER" \in events
    THEN "enqueue_capture_buffers"
    ELSE "top"

\* Top of the loop without the zero case: CaptureReady is enabled whenever the
\* worker is in Decoding.
run_top_always_enabled ==
    /\ wpc = "top"
    /\ wpc' = "poll"
    /\ poller' = IF capture_queue.state = "BuffersAllocated"
                 THEN enable_event(poller, "CaptureReady")
                 ELSE poller
    /\ UNCHANGED <<qvars, devvars, svars, client_vars, output_vars, wevents, capture_queue, c_driver, c_allocs,
                   c_frame, c_completed, events_pending, ev_emitted, c_dqbufs>>

\* Top of the loop: CaptureReady follows num_queued_buffers.
run_top ==
    /\ wpc = "top"
    /\ wpc' = "poll"
    /\ poller' = IF capture_queue.state = "BuffersAllocated"
                 THEN IF num_queued_buffers(capture_queue) = 0
                      THEN disable_event(poller, "CaptureReady")
                      ELSE enable_event(poller, "CaptureReady")
                 ELSE poller
    /\ UNCHANGED <<qvars, devvars, svars, client_vars, output_vars, wevents, capture_queue, c_driver, c_allocs,
                   c_frame, c_completed, events_pending, ev_emitted, c_dqbufs>>

\* poll returns; reading the waker resets it.
run_poll ==
    /\ wpc = "poll"
    /\ LET events == poll(poller, c_driver, events_pending)
       IN /\ events # {}
          /\ wevents' = events
          /\ wpc' = NextHandler(events, "poll")
    /\ poller' = [poller EXCEPT !.woken = FALSE]
    /\ UNCHANGED <<qvars, devvars, svars, client_vars, output_vars, capture_queue, c_driver, c_allocs, c_frame,
                   c_completed, events_pending, ev_emitted, c_dqbufs>>

\* process_capture_buffer.  flags is what the driver put on the buffer, keep
\* whether output_ready_cb keeps the DQBuffer or drops it before returning.
process_capture_buffer(flags, keep) ==
    /\ wpc = "process_capture_buffer"
    /\ LET r == dqbuf_of(c_driver, IF flags.corrupted THEN CaptureIndices ELSE {})
           d == IF capture_queue.state = "BuffersAllocated" THEN try_dequeue(capture_queue, r)
                ELSE [err |-> "Panic", queue |-> capture_queue, index |-> 0,
                      plane_handles |-> NoHandles]
           fuse == BufferStateFuse(downgrade(capture_queue, d.index))
       IN /\ c_driver' = after_dqbuf(c_driver, r)
          /\ IF d.err = "Ok"
             THEN /\ c_frame' = Frame(d.index, flags, ~flags.empty)
                  /\ IF ~flags.empty /\ keep
                     THEN \* the client keeps the buffer it was given
                          /\ capture_queue' = d.queue
                          /\ c_dqbufs' = [c_dqbufs EXCEPT ![<<capture_queue.alloc, d.index>>] = @ + 1]
                          /\ UNCHANGED poller
                     ELSE \* dropped in the callback, or by the worker when empty:
                          \* the fuse triggers and the drop callback wakes the waker
                          /\ capture_queue' = trigger(d.queue, fuse)
                          /\ poller' = wake(poller)
                          /\ UNCHANGED c_dqbufs
                  /\ wpc' = IF flags.last THEN "exited"
                            ELSE NextHandler(wevents, "process_capture_buffer")
             ELSE \* not Ok(_): the error, and a DQBuffer in it, is dropped; panic
                  /\ c_frame' = IF d.err = "CorruptedBuffer"
                                THEN Frame(d.index, flags, FALSE) ELSE c_frame
                  /\ capture_queue' = dropped(IF d.err = "CorruptedBuffer"
                                              THEN trigger(d.queue, fuse) ELSE d.queue)
                  /\ wpc' = "panicked"
                  /\ UNCHANGED <<poller, c_dqbufs>>
    /\ UNCHANGED <<qvars, devvars, svars, client_vars, output_vars, wevents, c_allocs, c_completed, events_pending,
                   ev_emitted>>

\* process_events, and the unwrap of its result in run().
run_process_events(granted, ok) ==
    /\ wpc = "process_events"
    /\ LET r == process_events(Thread, events_pending, granted, ok)
       IN /\ capture_queue' = r.t.capture_queue
          /\ c_driver' = r.t.driver
          /\ poller' = r.t.poller
          /\ c_allocs' = r.t.allocs
          /\ wpc' = IF r.err = "Ok" THEN NextHandler(wevents, "process_events") ELSE "panicked"
    /\ events_pending' = <<>>
    /\ UNCHANGED <<qvars, devvars, svars, client_vars, output_vars, wevents, c_frame, c_completed, ev_emitted, c_dqbufs>>

\* The WAKER branch of run().
run_enqueue_capture_buffers ==
    /\ wpc = "enqueue_capture_buffers"
    /\ capture_queue' = enqueue_capture_buffers(capture_queue)
    /\ wpc' = "top"
    /\ UNCHANGED <<qvars, devvars, svars, client_vars, output_vars, wevents, c_driver, c_allocs, poller, c_frame,
                   c_completed, events_pending, ev_emitted, c_dqbufs>>

\* The driver fills a queued CAPTURE buffer.
DriverCaptureDone(index) ==
    /\ c_driver.streaming
    /\ capture_queue.state = "BuffersAllocated"
    /\ index \in DOMAIN capture_queue.buffer_info
    /\ capture_queue.buffer_info[index].st = "Queued"
    /\ ~InSeq(index, c_driver.done)
    /\ c_completed < MaxFrames
    /\ c_completed' = c_completed + 1
    /\ c_driver' = [c_driver EXCEPT !.done = Append(@, index)]
    /\ UNCHANGED <<qvars, devvars, svars, client_vars, output_vars, wpc, wevents, capture_queue, c_allocs, poller,
                   c_frame, events_pending, ev_emitted, c_dqbufs>>

\* The driver queues a source-change event.
DriverSourceChange(changes) ==
    /\ wpc \notin {"none", "exited", "panicked"}
    /\ ev_emitted < MaxEvents
    /\ ev_emitted' = ev_emitted + 1
    /\ events_pending' = Append(events_pending, changes)
    /\ UNCHANGED <<qvars, devvars, svars, client_vars, output_vars, worker_vars, c_completed, c_dqbufs>>

\* The client drops a CAPTURE DQBuffer it kept: the fuse triggers and the
\* drop callback wakes the worker's waker.
DQBuffer_drop(w) ==
    /\ c_dqbufs[w] > 0
    /\ c_dqbufs' = [c_dqbufs EXCEPT ![w] = @ - 1]
    /\ capture_queue' = trigger(capture_queue, BufferStateFuse([alloc |-> w[1], index |-> w[2]]))
    /\ poller' = wake(poller)
    /\ UNCHANGED <<qvars, devvars, svars, client_vars, output_vars, wpc, wevents, c_driver, c_allocs, c_frame,
                   c_completed, events_pending, ev_emitted>>

\* ------------------------------------------------------------------- stop
\* stop: the Stop command; ok is its outcome.
stop(ok) ==
    /\ phase = "Decoding"
    /\ cpc = "idle"
    /\ NoOutputBufferHeld
    /\ stop_log' = Append(stop_log, "decoder_cmd")
    /\ stop_in' = CASE capture_queue.state = "BuffersAllocated" -> "Decoding"
                     [] capture_queue.state = "Init" -> "AwaitingResolution"
                     [] OTHER -> "Panicked"
    /\ IF ok THEN cpc' = "join" /\ UNCHANGED <<phase, output_queue>>
       ELSE /\ cpc' = "DecoderCmdError"
            /\ phase' = "Stopped"
            /\ output_queue' = dropped(output_queue)
    /\ UNCHANGED <<qvars, devvars, svars, o_driver, o_qbufs, o_mut, o_dqbufs, o_submitted, o_dequeued, input_done,
                   worker_vars, c_completed, events_pending, ev_emitted, c_dqbufs>>

\* stop: join returns, then the CAPTURE queue is streamed off and the
\* thread's state and the session are dropped.
stop_join ==
    /\ cpc = "join"
    /\ wpc \in {"exited", "panicked"}
    /\ phase' = "Stopped"
    /\ output_queue' = dropped(output_queue)
    /\ IF wpc = "exited" /\ capture_queue.state = "BuffersAllocated"
       THEN /\ capture_queue' = dropped(stream_off(capture_queue, TRUE).queue)
            /\ c_driver' = IdleDriver
            /\ stop_log' = stop_log \o <<"join", "stream_off">>
            /\ cpc' = "Ok"
       ELSE \* join().unwrap() on a panicked thread, or todo!()
            /\ capture_queue' = dropped(capture_queue)
            /\ stop_log' = Append(stop_log, "join")
            /\ cpc' = "panicked"
            /\ UNCHANGED c_driver
    /\ UNCHANGED <<qvars, devvars, svars, stop_in, o_driver, o_qbufs, o_mut, o_dqbufs, o_submitted, o_dequeued,
                   input_done, wpc, wevents, c_allocs, poller, c_frame, c_completed,
                   events_pending, ev_emitted, c_dqbufs>>

Flags == [last : BOOLEAN, empty : BOOLEAN, corrupted : BOOLEAN]

DNext ==
    \/ \E ok \in BOOLEAN : set_output_format(ok)
    \/ \E n \in 1 .. MaxOutputBuffers, granted \in 1 .. MaxOutputBuffers :
          allocate_output_buffers(n, granted)
    \/ \E res \in {"Ok", "SubscribeEventError", "IoError", "StreamOnError"} : start(res)
    \/ \E corrupted \in SUBSET SeqRange(o_driver.done) : get_buffer(corrupted)
    \/ \E corrupted \in SUBSET SeqRange(o_driver.done) : wait_for_output_buffer(corrupted)
    \/ \E corrupted \in SUBSET SeqRange(o_driver.done) : Session_try_get_free_buffer(corrupted)
    \/ \E index \in OutputIndices : OutputBuffer_queue(index)
    \/ \E index \in OutputIndices : OutputBuffer_drop(index)
    \/ \E index \in OutputIndices : GetBufferError_drop(index)
    \/ \E index \in OutputIndices : DriverOutputDone(index)
    \/ run_top
    \/ run_poll
    \/ \E flags \in Flags, keep \in BOOLEAN : process_capture_buffer(flags, keep)
    \/ \E granted \in 1 .. MaxCaptureBuffers, ok \in BOOLEAN : run_process_events(granted, ok)
    \/ run_enqueue_capture_buffers
    \/ \E index \in CaptureIndices : DriverCaptureDone(index)
    \/ \E changes \in {{"RESOLUTION"}, {}} : DriverSourceChange(changes)
    \/ \E w \in DOMAIN c_dqbufs : DQBuffer_drop(w)
    \/ \E ok \in BOOLEAN : stop(ok)
    \/ stop_join

\* =========================================================================
\* DeviceSpec: the queue registry of one device, driven by a client that
\* creates and drops queues of any type.
\* OpenSpec: Decoder::open on devices of any description.
\* =========================================================================

\* Longest format list a queue advertises.
MaxFormats == 2

\* The queue types Queue can be created for.
QueueTypes == {"VideoCapture", "VideoOutput", "VideoCaptureMplane", "VideoOutputMplane"}

\* Flags of one advertised format.
FormatFlags == SUBSET {"COMPRESSED"}

\* Format lists format_iter can yield.
FormatLists == UNION {[1 .. n -> FormatFlags] : n \in 0 .. MaxFormats}

\* Capabilities the dummy REQBUFS reports.
BufferCapabilities == SUBSET {"SUPPORTS_MMAP", "SUPPORTS_REQUESTS"}

\* Mutant of create: the registry is not consulted.
create_unchecked(used, queue_type, reqbufs_ok) ==
    IF ~reqbufs_ok THEN [err |-> "ReqbufsError", used_queues |-> used]
    ELSE [err |-> "Ok", used_queues |-> used \cup {queue_type}]

\* Queue::create on a device whose registry is used; reqbufs_ok is the
\* outcome of the dummy REQBUFS.
create(used, queue_type, reqbufs_ok) ==
    IF queue_type \in used THEN [err |-> "AlreadyBorrowed", used_queues |-> used]
    ELSE IF ~reqbufs_ok THEN [err |-> "ReqbufsError", used_queues |-> used]
    ELSE [err |-> "Ok", used_queues |-> used \cup {queue_type}]

\* Drop for QueueBase: the assert fails when the type was not in the set.
QueueBase_drop(used, type_) ==
    [panicked |-> type_ \notin used, used_queues |-> used \ {type_}]

\* Iterator::find on a format list: the position of the first format whose
\* COMPRESSED flag is as asked, 0 for None.
find(formats, compressed) ==
    LET hits == {k \in DOMAIN formats : ("COMPRESSED" \in formats[k]) = compressed}
    IN IF hits = {} THEN 0 ELSE CHOOSE k \in hits : \A j \in hits : k <= j

\* Option::and.
and(a, b) == IF a = 0 THEN 0 ELSE b

OpenArgs ==
    [path_ok : BOOLEAN, capture_reqbufs_ok : BOOLEAN, output_reqbufs_ok : BOOLEAN,
     output_formats : FormatLists, capture_formats : FormatLists,
     capabilities : BufferCapabilities]

OpenErr(err) ==
    [err |-> err, phase |-> "none", output_queue |-> QueueInit, capture_queue |-> QueueInit,
     used_queues |-> {}]

\* Mutant of open: the capabilities of the OUTPUT queue are not looked at.
open_ignoring_capabilities(a) ==
    IF ~a.path_ok THEN OpenErr("DeviceOpenError")
    ELSE LET c == create({}, "VideoCaptureMplane", a.capture_reqbufs_ok)
         IN IF c.err # "Ok" THEN OpenErr("CreateQueueError")
            ELSE LET o == create(c.used_queues, "VideoOutputMplane", a.output_reqbufs_ok)
                 IN IF o.err # "Ok" THEN OpenErr("CreateQueueError")
                    ELSE IF and(find(a.output_formats, TRUE), find(a.capture_formats, FALSE)) = 0
                         THEN OpenErr("NotAStatefulDecoder")
                    ELSE [err |-> "Ok", phase |-> "AwaitingOutputFormat",
                          output_queue |-> QueueInit, capture_queue |-> QueueInit,
                          used_queues |-> o.used_queues]

\* Decoder::open on a fresh device.  On an error return the queues created
\* so far and the device are dropped.
open(a) ==
    IF ~a.path_ok THEN OpenErr("DeviceOpenError")
    ELSE LET c == create({}, "VideoCaptureMplane", a.capture_reqbufs_ok)
         IN IF c.err # "Ok" THEN OpenErr("CreateQueueError")
            ELSE LET o == create(c.used_queues, "VideoOutputMplane", a.output_reqbufs_ok)
                 IN IF o.err # "Ok" THEN OpenErr("CreateQueueError")
                    ELSE IF and(find(a.output_formats, TRUE), find(a.capture_formats, FALSE)) = 0
                         THEN OpenErr("NotAStatefulDecoder")
                    ELSE IF "SUPPORTS_REQUESTS" \in a.capabilities
                         THEN OpenErr("NotAStatefulDecoder")
                    ELSE [err |-> "Ok", phase |-> "AwaitingOutputFormat",
                          output_queue |-> QueueInit, capture_queue |-> QueueInit,
                          used_queues |-> o.used_queues]

NoCall == [op |-> "none", type_ |-> "none", err |-> "Ok"]

NotOpened == [called |-> FALSE, args |-> [path_ok |-> FALSE, capture_reqbufs_ok |-> FALSE,
                                          output_reqbufs_ok |-> FALSE, output_formats |-> <<>>,
                                          capture_formats |-> <<>>, capabilities |-> {}],
              result |-> OpenErr("none")]

\* A device just opened: nothing is borrowed from it.
DevInit ==
    /\ used_queues = {}
    /\ d_queues = [t \in QueueTypes |-> 0]
    /\ d_last = NoCall
    /\ opened = NotOpened

\* get_output_queue, get_capture_queue and their mplane forms.
Queue_create(queue_type, reqbufs_ok) ==
    LET r == create(used_queues, queue_type, reqbufs_ok)
    IN /\ used_queues' = r.used_queues
       /\ d_queues' = IF r.err = "Ok" THEN [d_queues EXCEPT ![queue_type] = @ + 1] ELSE d_queues
       /\ d_last' = [op |-> "create", type_ |-> queue_type, err |-> r.err]
       /\ UNCHANGED <<qvars, dvars, svars, opened>>

\* A live Queue goes out of scope.
Queue_drop(queue_type) ==
    /\ d_queues[queue_type] > 0
    /\ LET r == QueueBase_drop(used_queues, queue_type)
       IN /\ used_queues' = r.used_queues
          /\ d_last' = [op |-> "drop", type_ |-> queue_type,
                        err |-> IF r.panicked THEN "panicked" ELSE "Ok"]
    /\ d_queues' = [d_queues EXCEPT ![queue_type] = @ - 1]
    /\ UNCHANGED <<qvars, dvars, svars, opened>>

\* Calls of open share no state, each opening its own device; one call is
\* observed in a run.
Decoder_open(a) ==
    /\ ~opened.called
    /\ opened' = [called |-> TRUE, args |-> a, result |-> open(a)]
    /\ UNCHANGED <<qvars, dvars, svars, used_queues, d_queues, d_last>>

DevNext ==
    \/ \E t \in QueueTypes, ok \in BOOLEAN : Queue_create(t, ok)
    \/ \E t \in QueueTypes : Queue_drop(t)

OpenNext == \E a \in OpenArgs : Decoder_open(a)

\* =========================================================================
\* RaceSpec: one queue used by the thread that owns it, with
\* try_get_free_buffer taken lock by lock, while another thread drops the
\* DQBuffers it was given and the driver completes buffers.
\* =========================================================================

NoScan == [pc |-> "idle", pos |-> 0]

ScanInit == q_scan = NoScan

\* try_get_free_buffer is entered: the iterator stands on the first buffer.
try_get_free_buffer_enter ==
    /\ q_scan.pc = "idle"
    /\ queue.state = "BuffersAllocated"
    /\ q_scan' = [pc |-> "find", pos |-> 0]
    /\ UNCHANGED <<qvars, dvars, devvars>>

\* One test of find: the state of buffer pos is locked, compared with Free
\* and unlocked.  Past the last buffer the result is None and the call
\* returns NoFreeBuffer.
try_get_free_buffer_find ==
    /\ q_scan.pc = "find"
    /\ IF q_scan.pos \notin DOMAIN queue.buffer_info
       THEN /\ q_scan' = NoScan
            /\ q_last' = [NoOp EXCEPT !.op = "try_get_free_buffer", !.err = "NoFreeBuffer"]
       ELSE /\ q_scan' = IF queue.buffer_info[q_scan.pos].st = "Free"
                         THEN [pc |-> "found", pos |-> q_scan.pos]
                         ELSE [pc |-> "find", pos |-> q_scan.pos + 1]
            /\ UNCHANGED q_last
    /\ UNCHANGED <<dvars, devvars, queue, q_driver, q_qbufs, q_dqbufs, q_allocs>>

\* try_get_buffer(i).unwrap() on the buffer find stopped at.
try_get_free_buffer_get ==
    /\ q_scan.pc = "found"
    /\ LET r == try_get_buffer(queue, q_scan.pos)
       IN /\ queue' = r.queue
          /\ q_qbufs' = IF r.err = "Ok" THEN [q_qbufs EXCEPT ![q_scan.pos] = @ + 1] ELSE q_qbufs
          /\ q_last' = [NoOp EXCEPT !.op = "try_get_free_buffer", !.index = q_scan.pos,
                                    !.err = IF r.err = "Ok" THEN "Ok" ELSE "Panic"]
    /\ q_scan' = NoScan
    /\ UNCHANGED <<dvars, devvars, q_driver, q_dqbufs, q_allocs>>

\* The other calls of the owning thread, made while no call is in progress.
Owner_request_buffers(n) == q_scan.pc = "idle" /\ QRequestBuffers(n)

Owner_free_buffers == q_scan.pc = "idle" /\ QFreeBuffers

Owner_stream_on == q_scan.pc = "idle" /\ QStreamOn

Owner_queue_with_handles(index, h, ok) == q_scan.pc = "idle" /\ QQueueWithHandles(index, h, ok)

Owner_try_dequeue(r) == q_scan.pc = "idle" /\ QTryDequeue(r)

RaceNext ==
    \/ \E n \in 1 .. MaxBuffers : Owner_request_buffers(n)
    \/ Owner_free_buffers
    \/ Owner_stream_on
    \/ try_get_free_buffer_enter
    \/ try_get_free_buffer_find
    \/ try_get_free_buffer_get
    \/ \E index \in Indices, h \in Handles, ok \in BOOLEAN : Owner_queue_with_handles(index, h, ok)
    \/ \E r \in dqbuf(q_driver) : Owner_try_dequeue(r)
    \/ \E index \in Indices : QDriverDone(index)
    \/ \E w \in DOMAIN q_dqbufs : QDropDQBuffer(w)

Init == QInit /\ DInit /\ DevInit /\ ScanInit

RaceSpec == Init /\ [][RaceNext]_vars

DeviceSpec == Init /\ [][DevNext]_vars

OpenSpec == Init /\ [][OpenNext]_vars

QueueSpec == Init /\ [][QNext]_vars

Spec == Init /\ [][DNext]_vars


\* ------------------------------------------------------ claims on the queue

\* C1: in BuffersAllocated, after any sequence of queue operations,
\* num_queued_buffers equals the number of buffers in state Queued and never
\* exceeds num_buffers.
C1_CounterMatchesQueued ==
    queue.state = "BuffersAllocated" =>
        /\ num_queued_buffers(queue) = CountState(queue, "Queued")
        /\ num_queued_buffers(queue) <= num_buffers(queue)

\* C1 witness: stream_off has just canceled two queued buffers.
C1_Witness ==
    /\ q_last.op = "stream_off"
    /\ Len(q_last.canceled) = 2
    /\ num_queued_buffers(queue) = 0

\* Live client handles of buffer i of the current allocation.
LiveQBuffers(i) == q_qbufs[i]

LiveDQBuffers(i) == q_dqbufs[<<queue.alloc, i>>]

\* C2: every buffer is in one of the four states and has at most one owner
\* handle: PreQueue has exactly one QBuffer, Dequeued exactly one DQBuffer,
\* Free and Queued have no client handle.
C2_SingleOwner ==
    queue.state = "BuffersAllocated" =>
        \A i \in DOMAIN queue.buffer_info :
            LET st == queue.buffer_info[i].st
            IN /\ st \in {"Free", "PreQueue", "Queued", "Dequeued"}
               /\ LiveQBuffers(i) = (IF st = "PreQueue" THEN 1 ELSE 0)
               /\ LiveDQBuffers(i) = (IF st = "Dequeued" THEN 1 ELSE 0)

\* C2 witness: try_get_buffer has just refused a buffer that a DQBuffer
\* owns, while another buffer is held by a QBuffer.
C2_Witness ==
    /\ q_last.op = "try_get_buffer"
    /\ q_last.err = "AlreadyUsed"
    /\ queue.buffer_info[q_last.index].st = "Dequeued"
    /\ \E i \in DOMAIN queue.buffer_info : queue.buffer_info[i].st = "PreQueue"

\* C3: a fuse destroyed while armed on a live state sets that buffer to Free
\* and changes nothing else; a disarmed fuse (a submitted QBuffer) leaves the
\* buffer Queued; a fuse whose allocation was freed changes nothing, also
\* when the queue was re-allocated and has a buffer of the same index.
C3_FuseOnDrop ==
    [][ /\ (q_last'.op = "drop_dqbuffer" =>
              IF queue.state = "BuffersAllocated" /\ q_last'.weak.alloc = queue.alloc
              THEN queue' = [queue EXCEPT !.buffer_info[q_last'.weak.index] = Free]
              ELSE queue' = queue)
        /\ (q_last'.op = "drop_qbuffer" =>
              queue' = [queue EXCEPT !.buffer_info[q_last'.index] = Free])
        /\ (q_last'.op = "queue_with_handles" /\ q_last'.err = "Ok" =>
              queue'.buffer_info[q_last'.index].st = "Queued")
      ]_vars

\* C3 witness: a DQBuffer of a freed allocation has just been dropped while
\* the re-allocated queue has the buffer of the same index queued.
C3_Witness ==
    /\ q_last.op = "drop_dqbuffer"
    /\ queue.state = "BuffersAllocated"
    /\ q_last.weak.alloc # queue.alloc
    /\ q_last.weak.index \in DOMAIN queue.buffer_info
    /\ queue.buffer_info[q_last.weak.index].st = "Queued"


\* ---------------------------------------------------- claims on the decoder

\* C4: every OUTPUT buffer the session dequeued, in get_buffer or in
\* try_get_free_buffer, was passed to input_done_cb exactly once with the
\* plane handles it was queued with, in dequeue order.
C4_InputDoneForEveryDequeued == input_done = o_dequeued

\* A source-change event with the resolution bit is pending for the worker.
ResolutionPending == \E k \in 1 .. Len(events_pending) : "RESOLUTION" \in events_pending[k]

\* C5: a source-change event with the resolution bit that is pending while
\* the worker waits in poll with its CAPTURE queue in Decoding is reported to
\* the worker, so that it runs the resolution update again.
C5_DrcEventObserved ==
    (wpc = "poll" /\ capture_queue.state = "BuffersAllocated" /\ ResolutionPending) =>
        "DEVICE_EVENT" \in poll(poller, c_driver, events_pending)

\* C6: after the driver reported a corrupted CAPTURE buffer the worker has
\* not failed, and output_ready_cb was invoked with the buffer if it is not
\* empty.
C6_CorruptedCaptureNonFatal ==
    (c_frame.dequeued /\ c_frame.corrupted) =>
        /\ wpc # "panicked"
        /\ (~c_frame.empty => c_frame.delivered)

\* C7: while stop() called in AwaitingResolution waits in join and the worker
\* waits in poll, the worker has something to wake it: stop's auxiliary wake.
C7_StopWakesAwaitingWorker ==
    (cpc = "join" /\ stop_in = "AwaitingResolution" /\ wpc = "poll"
        /\ capture_queue.state = "Init" /\ events_pending = <<>>) =>
        poll(poller, c_driver, events_pending) # {}

\* C8: stop() called in Decoding takes its steps in the order Stop command,
\* join, stream_off; once the driver returned a CAPTURE buffer flagged LAST
\* it does not panic, and when it has returned Ok the worker has exited, no
\* CAPTURE buffer is Queued and the CAPTURE num_queued_buffers is 0.
C8_StopInDecoding ==
    stop_in = "Decoding" =>
        /\ (c_frame.dequeued /\ c_frame.last) => cpc # "panicked"
        /\ cpc = "Ok" =>
              /\ stop_log = <<"decoder_cmd", "join", "stream_off">>
              /\ wpc = "exited"
              /\ CountState(capture_queue, "Queued") = 0
              /\ num_queued_buffers(capture_queue) = 0

\* C9: the worker has left its loop normally exactly when the CAPTURE buffer
\* it dequeued last carries the LAST flag, and then output_ready_cb has
\* returned for that buffer unless it is empty.
C9_ExitExactlyOnLast ==
    /\ wpc = "exited" <=> (c_frame.dequeued /\ c_frame.last)
    /\ wpc = "exited" /\ ~c_frame.empty => c_frame.delivered

\* C10: while a source-change event with the resolution bit is pending, the
\* worker does not leave poll for the CAPTURE handler, where it would pass a
\* buffer to output_ready_cb before update_capture_resolution has run.
C10_ResolutionBeforeDelivery ==
    [][(wpc = "poll" /\ ResolutionPending) => wpc' # "process_capture_buffer"]_vars

\* The worker is in AwaitingResolution: spawned, its CAPTURE queue in Init.
AwaitingResolution == wpc \notin {"none", "panicked"} /\ capture_queue.state = "Init"

\* Every CAPTURE buffer is Queued.
AllCaptureQueued ==
    /\ num_queued_buffers(capture_queue) = num_buffers(capture_queue)
    /\ \A i \in DOMAIN capture_queue.buffer_info : capture_queue.buffer_info[i].st = "Queued"

AllOutputQueued == num_queued_buffers(output_queue) = num_buffers(output_queue)

CaptureDequeue ==
    wpc = "process_capture_buffer" /\ Len(c_driver'.done) < Len(c_driver.done)

\* C13: every CAPTURE buffer the worker dequeues is the oldest completed one
\* and, when it is not empty, is passed to output_ready_cb before the worker
\* does anything else, so that the deliveries are in dequeue order and each
\* buffer is delivered once.
C13_DeliveredInDequeueOrder ==
    [][CaptureDequeue =>
          /\ c_frame'.dequeued
          /\ c_frame'.index = Head(c_driver.done)
          /\ (~c_frame'.empty => c_frame'.delivered)]_vars

\* C14: a CAPTURE buffer whose first plane is empty is taken off the queue
\* (counter decremented), is not passed to output_ready_cb, and when the
\* worker drops it the buffer is Free and the drop callback has woken the
\* waker.
C14_EmptyNotDelivered ==
    [][CaptureDequeue /\ c_frame'.empty =>
          /\ ~c_frame'.delivered
          /\ num_queued_buffers(capture_queue') = num_queued_buffers(capture_queue) - 1
          /\ capture_queue'.buffer_info[c_frame'.index].st = "Free"
          /\ poller'.woken]_vars

\* C15: whenever the worker waits in poll in Decoding, CaptureReady is enabled
\* on its poller exactly when the CAPTURE num_queued_buffers is not zero.
C15_CaptureReadyFollowsCounter ==
    (wpc = "poll" /\ capture_queue.state = "BuffersAllocated") =>
        ("CaptureReady" \in poller.enabled <=> num_queued_buffers(capture_queue) # 0)

\* C15 witness: the worker waits in poll with CaptureReady disabled, after
\* the client kept every CAPTURE buffer it was given.
C15_Witness ==
    /\ wpc = "poll"
    /\ capture_queue.state = "BuffersAllocated"
    /\ num_buffers(capture_queue) = 2
    /\ num_queued_buffers(capture_queue) = 0
    /\ "CaptureReady" \notin poller.enabled
    /\ c_frame.delivered

\* The Free buffers of the CAPTURE queue.
FreeCapture(q) == {i \in DOMAIN q.buffer_info : q.buffer_info[i].st = "Free"}

\* The worker runs its loop in Decoding.
RunningDecoding ==
    wpc \notin {"none", "exited", "panicked"} /\ capture_queue.state = "BuffersAllocated"

\* A wake is on its way to enqueue_capture_buffers: the waker is set, or the
\* current iteration of the loop saw it.
WakePending ==
    \/ poller.woken
    \/ /\ "WAKER" \in wevents
       /\ wpc \in {"process_capture_buffer", "process_events", "enqueue_capture_buffers"}

\* C16: while the worker runs in Decoding, a Free CAPTURE buffer always has a
\* wake on its way; the client's drop of a CAPTURE DQBuffer wakes the waker
\* and frees the buffer when it is of the current allocation; on the wake the
\* worker queues every Free buffer with default handles, so that none is Free
\* afterwards, and a wake that finds no Free buffer changes nothing of the
\* queue.
C16_DroppedBuffersRequeued ==
    [][ /\ (RunningDecoding /\ FreeCapture(capture_queue) # {} => WakePending)
        /\ \A w \in DOMAIN c_dqbufs :
              RunningDecoding /\ c_dqbufs'[w] < c_dqbufs[w] =>
                 /\ poller'.woken
                 /\ IF w[1] = capture_queue.alloc
                    THEN capture_queue' = [capture_queue EXCEPT !.buffer_info[w[2]] = Free]
                    ELSE capture_queue' = capture_queue
        /\ (RunningDecoding /\ wpc = "enqueue_capture_buffers" /\ wpc' = "top" =>
              /\ FreeCapture(capture_queue') = {}
              /\ num_queued_buffers(capture_queue') =
                     num_queued_buffers(capture_queue) + Cardinality(FreeCapture(capture_queue))
              /\ \A i \in DOMAIN capture_queue.buffer_info :
                    capture_queue'.buffer_info[i] =
                       IF i \in FreeCapture(capture_queue) THEN Queued(NoHandles)
                       ELSE capture_queue.buffer_info[i]
              /\ (FreeCapture(capture_queue) = {} => capture_queue' = capture_queue))
      ]_vars

\* C16 witness: the client dropped both CAPTURE buffers it held, and the
\* worker, on the wake, has queued both again.
C16_Witness ==
    /\ wpc = "top"
    /\ "WAKER" \in wevents
    /\ capture_queue.state = "BuffersAllocated"
    /\ num_buffers(capture_queue) = 2
    /\ num_queued_buffers(capture_queue) = 2
    /\ c_completed = 2
    /\ c_frame.delivered
    /\ \A w \in DOMAIN c_dqbufs : c_dqbufs[w] = 0

\* C16 witness of the spurious wake: the worker is about to run
\* enqueue_capture_buffers with no Free buffer, after a client drop.
C16_SpuriousWake ==
    /\ wpc = "enqueue_capture_buffers"
    /\ RunningDecoding
    /\ FreeCapture(capture_queue) = {}
    /\ c_frame.delivered

\* The three conditions under which a device is not a stateful decoder.
NoCompressedOutputFormat ==
    \A k \in DOMAIN opened.args.output_formats : "COMPRESSED" \notin opened.args.output_formats[k]

NoUncompressedCaptureFormat ==
    \A k \in DOMAIN opened.args.capture_formats : "COMPRESSED" \in opened.args.capture_formats[k]

OutputSupportsRequests == "SUPPORTS_REQUESTS" \in opened.args.capabilities

QueuesCreated ==
    opened.args.path_ok /\ opened.args.capture_reqbufs_ok /\ opened.args.output_reqbufs_ok

\* C17: when the device opens and both queues are created, open returns
\* NotAStatefulDecoder if the OUTPUT queue advertises no compressed format,
\* or the CAPTURE queue no uncompressed format, or the OUTPUT queue the
\* SUPPORTS_REQUESTS capability, and otherwise succeeds with a session in
\* AwaitingOutputFormat that holds both queues in Init.
C17_OpenValidatesDecoder ==
    (opened.called /\ QueuesCreated) =>
        IF NoCompressedOutputFormat \/ NoUncompressedCaptureFormat \/ OutputSupportsRequests
        THEN opened.result.err = "NotAStatefulDecoder"
        ELSE /\ opened.result.err = "Ok"
             /\ opened.result.phase = "AwaitingOutputFormat"
             /\ opened.result.output_queue.state = "Init"
             /\ opened.result.capture_queue.state = "Init"

\* C17 witness: open succeeded on a device whose format lists both mix
\* compressed and uncompressed formats.
C17_Witness ==
    /\ opened.called
    /\ opened.result.err = "Ok"
    /\ opened.args.output_formats = <<{}, {"COMPRESSED"}>>
    /\ opened.args.capture_formats = <<{"COMPRESSED"}, {}>>
    /\ opened.args.capabilities = {"SUPPORTS_MMAP"}

\* C17 witness of the rejection of a stateless decoder.
C17_RejectsRequests ==
    /\ opened.called
    /\ QueuesCreated
    /\ ~NoCompressedOutputFormat
    /\ ~NoUncompressedCaptureFormat
    /\ OutputSupportsRequests
    /\ opened.result.err = "NotAStatefulDecoder"

\* C19: on one device each queue type is borrowed by at most one live Queue,
\* and the registry holds exactly the types of the live queues; a create of
\* a borrowed type returns AlreadyBorrowed and changes nothing; a create
\* whose dummy REQBUFS fails leaves the type not borrowed; a drop releases
\* the type, after which a create of it succeeds.
C19_BorrowedAtMostOnce ==
    [][ /\ \A t \in QueueTypes : d_queues[t] <= 1 /\ (t \in used_queues <=> d_queues[t] = 1)
        /\ (d_last'.op = "create" /\ d_last'.type_ \in used_queues =>
              /\ d_last'.err = "AlreadyBorrowed"
              /\ used_queues' = used_queues
              /\ d_queues' = d_queues)
        /\ (d_last'.op = "create" /\ d_last'.err = "ReqbufsError" =>
              /\ d_last'.type_ \notin used_queues'
              /\ d_queues' = d_queues)
        /\ (d_last'.op = "create" /\ d_last'.err = "Ok" =>
              /\ d_last'.type_ \notin used_queues
              /\ used_queues' = used_queues \cup {d_last'.type_}
              /\ d_queues'[d_last'.type_] = 1)
        /\ (d_last'.op = "drop" =>
              /\ d_last'.err = "Ok"
              /\ used_queues' = used_queues \ {d_last'.type_}
              /\ d_queues'[d_last'.type_] = 0
              /\ create(used_queues', d_last'.type_, TRUE).err = "Ok")
      ]_vars

\* C19 witness: with both mplane queues borrowed, a second create of the
\* OUTPUT one was refused.
C19_Witness ==
    /\ d_last = [op |-> "create", type_ |-> "VideoOutputMplane", err |-> "AlreadyBorrowed"]
    /\ used_queues = {"VideoCaptureMplane", "VideoOutputMplane"}
    /\ d_queues["VideoOutputMplane"] = 1

\* C19 witness of the release: the CAPTURE queue was dropped while the
\* OUTPUT one stays borrowed.
C19_Released ==
    /\ d_last = [op |-> "drop", type_ |-> "VideoCaptureMplane", err |-> "Ok"]
    /\ used_queues = {"VideoOutputMplane"}

\* The phases of a session, in their order.
PhaseOrder ==
    <<"AwaitingOutputFormat", "AwaitingOutputBuffers", "OutputBuffersAllocated", "Decoding",
      "Stopped">>

PhaseRank(p) == CHOOSE k \in DOMAIN PhaseOrder : PhaseOrder[k] = p

\* A change of phase goes to the next phase of the order, or consumes the
\* session with an error.
PhaseAdvances ==
    phase' # phase =>
        /\ phase \in {PhaseOrder[k] : k \in 1 .. 4}
        /\ phase' = "Failed" \/ PhaseRank(phase') = PhaseRank(phase) + 1

\* The typestate of the OUTPUT queue in each phase that holds one.
OutputQueueFollowsPhase ==
    /\ phase \in {"AwaitingOutputFormat", "AwaitingOutputBuffers"} => output_queue.state = "Init"
    /\ phase \in {"OutputBuffersAllocated", "Decoding"} => output_queue.state = "BuffersAllocated"

\* The worker thread was spawned and has not ended.
WorkerExists == wpc \notin {"none", "exited", "panicked"}

\* C18: the session advances AwaitingOutputFormat -> AwaitingOutputBuffers ->
\* OutputBuffersAllocated -> Decoding -> Stopped, one phase at a time and never
\* back; the OUTPUT queue is in Init in the first two phases and in
\* BuffersAllocated from OutputBuffersAllocated on; and a worker thread
\* exists only in Decoding, that is from a successful start until stop.
C18_PhasesInOrder ==
    [][ /\ PhaseAdvances
        /\ OutputQueueFollowsPhase
        /\ (WorkerExists => phase = "Decoding")
      ]_vars

\* A step of the worker thread: its position in run() changes.  The spawn
\* in start is the client's.
WorkerStep == wpc # "none" /\ wpc' # wpc

\* C20: each queue is used by the thread that owns its side.  A step of the
\* worker leaves the OUTPUT queue, its handles and its driver side alone;
\* while the worker exists, a step of another thread changes the CAPTURE
\* queue at most by returning a Dequeued buffer to Free, never its counter,
\* typestate, allocation or streaming; the CAPTURE queue is streamed off by
\* the client only in stop, once the worker has ended and was joined; and a
\* client drop of a CAPTURE DQBuffer changes that one buffer's state and the
\* waker, and nothing else of the queue or the poller.
C20_QueuesOwnedByOneThread ==
    [][ /\ (WorkerStep => UNCHANGED <<output_queue, o_driver, o_qbufs, o_dqbufs, o_mut>>)
        /\ (WorkerExists /\ ~WorkerStep =>
              /\ capture_queue'.num_queued_buffers = capture_queue.num_queued_buffers
              /\ capture_queue'.state = capture_queue.state
              /\ capture_queue'.alloc = capture_queue.alloc
              /\ c_driver'.streaming = c_driver.streaming
              /\ \A i \in DOMAIN capture_queue.buffer_info :
                    \/ capture_queue'.buffer_info[i] = capture_queue.buffer_info[i]
                    \/ /\ capture_queue.buffer_info[i].st = "Dequeued"
                       /\ capture_queue'.buffer_info[i] = Free)
        /\ (~WorkerStep /\ c_driver.streaming /\ ~c_driver'.streaming =>
              /\ cpc = "join"
              /\ wpc = "exited"
              /\ stop_log' = stop_log \o <<"join", "stream_off">>)
        /\ \A w \in DOMAIN c_dqbufs :
              ~WorkerStep /\ c_dqbufs'[w] < c_dqbufs[w] =>
                 /\ capture_queue'.num_queued_buffers = capture_queue.num_queued_buffers
                 /\ \A i \in DOMAIN capture_queue.buffer_info :
                       i # w[2] => capture_queue'.buffer_info[i] = capture_queue.buffer_info[i]
                 /\ poller'.enabled = poller.enabled
                 /\ poller'.woken
                 /\ UNCHANGED <<c_driver, output_vars>>
      ]_vars

\* C20 witness: stop joined the ended worker and then streamed the CAPTURE
\* queue off, after the client had dropped the frames it held.
C20_Witness ==
    /\ cpc = "Ok"
    /\ wpc = "exited"
    /\ stop_log = <<"decoder_cmd", "join", "stream_off">>
    /\ ~c_driver.streaming
    /\ c_completed = 2
    /\ c_frame.delivered
    /\ \A w \in DOMAIN c_dqbufs : c_dqbufs[w] = 0

\* C20 witness of a client drop under a running worker: the worker waits in
\* poll, the waker is set and the dropped buffer is Free while the other one
\* is still with the driver.
C20_ClientDrop ==
    /\ wpc = "poll"
    /\ poller.woken
    /\ capture_queue.state = "BuffersAllocated"
    /\ num_buffers(capture_queue) = 2
    /\ Cardinality(FreeCapture(capture_queue)) = 1
    /\ num_queued_buffers(capture_queue) = 1
    /\ c_frame.delivered

\* A step of the queue client that is the call `op`.
QCall(op) == q_last'.op = op /\ <<queue, q_qbufs, q_dqbufs, q_driver, q_last>>' # <<queue, q_qbufs, q_dqbufs, q_driver, q_last>>

\* C21: try_get_free_buffer followed by the drop of the QBuffer it returned,
\* not submitted, leaves every per-buffer state and num_queued_buffers as
\* they were before the call: the call changes one Free buffer to PreQueue
\* and nothing else, the drop changes that buffer back to Free and nothing
\* else, and the two operators composed on any reachable queue give the
\* queue back.
C21_GetThenDropRestores ==
    [][ /\ (queue.state = "BuffersAllocated" =>
              LET r == try_get_free_buffer(queue)
              IN IF r.err = "Ok" THEN drop_qbuffer(r.queue, r.index) = queue
                 ELSE r.queue = queue)
        /\ (QCall("try_get_free_buffer") /\ q_last'.err = "Ok" =>
              /\ queue.buffer_info[q_last'.index] = Free
              /\ queue' = [queue EXCEPT !.buffer_info[q_last'.index] = PreQueue])
        /\ (q_last.op = "try_get_free_buffer" /\ q_last.err = "Ok"
              /\ QCall("drop_qbuffer") /\ q_last'.index = q_last.index =>
              /\ queue.buffer_info[q_last.index] = PreQueue
              /\ queue' = [queue EXCEPT !.buffer_info[q_last.index] = Free])
      ]_vars

\* C21 witness: the QBuffer of buffer 1, taken while buffer 0 was Queued with
\* handles, was dropped; buffer 1 is Free again and the counter is still 1.
C21_Witness ==
    /\ q_last.op = "drop_qbuffer"
    /\ q_last.index = 1
    /\ num_buffers(queue) = 2
    /\ queue.buffer_info[0] = Queued(2)
    /\ queue.buffer_info[1] = Free
    /\ num_queued_buffers(queue) = 1

\* Every buffer of q is Free.
AllFree(q) == \A i \in DOMAIN q.buffer_info : q.buffer_info[i] = Free

\* C22: stream_on leaves the queue as it is, and a successful stream_off on
\* a queue whose buffers are all Free returns an empty canceled list and
\* leaves every buffer state and num_queued_buffers unchanged.
C22_StreamOnOffAllFree ==
    [][ /\ (QCall("stream_on") => queue' = queue)
        /\ (queue.state = "BuffersAllocated" /\ AllFree(queue) =>
              stream_off(queue, TRUE) = [err |-> "Ok", queue |-> queue, canceled |-> <<>>])
        /\ (queue.state = "BuffersAllocated" /\ AllFree(queue)
              /\ q_last'.op = "stream_off" /\ q_last'.err = "Ok" =>
              /\ q_last'.canceled = <<>>
              /\ queue' = queue
              /\ num_queued_buffers(queue') = 0)
      ]_vars

\* C22 witness: a queue of two Free buffers has been streamed off.
C22_Witness ==
    /\ q_last = [NoOp EXCEPT !.op = "stream_off"]
    /\ queue.state = "BuffersAllocated"
    /\ num_buffers(queue) = 2
    /\ AllFree(queue)
    /\ ~q_driver.streaming
    /\ num_queued_buffers(queue) = 0

\* The buffers of q that are Queued.
QueuedIn(q) == {i \in DOMAIN q.buffer_info : q.buffer_info[i].st = "Queued"}

\* C25: a successful stream_off moves every Queued buffer to Free and keeps
\* the state of every other buffer; it returns one CanceledBuffer per buffer
\* that was Queued, in increasing index order, with that buffer's index and
\* the plane handles it was queued with; num_queued_buffers is decreased by
\* the number of canceled buffers and is 0 afterwards.
C25_StreamOffCancelsQueued ==
    [][ (q_last'.op = "stream_off" /\ q_last'.err = "Ok" /\ queue.state = "BuffersAllocated") =>
          LET canceled == q_last'.canceled
          IN /\ \A i \in DOMAIN queue.buffer_info :
                   queue'.buffer_info[i] =
                      IF queue.buffer_info[i].st = "Queued" THEN Free ELSE queue.buffer_info[i]
             /\ Len(canceled) = Cardinality(QueuedIn(queue))
             /\ {canceled[k].index : k \in DOMAIN canceled} = QueuedIn(queue)
             /\ \A k \in DOMAIN canceled :
                   /\ canceled[k].plane_handles = queue.buffer_info[canceled[k].index].plane_handles
                   /\ \A j \in DOMAIN canceled : j < k => canceled[j].index < canceled[k].index
             /\ num_queued_buffers(queue') = num_queued_buffers(queue) - Len(canceled)
             /\ num_queued_buffers(queue') = 0
      ]_vars

\* C25 witness: stream_off canceled two buffers queued with different
\* handles.
C25_Witness ==
    /\ q_last.op = "stream_off"
    /\ q_last.err = "Ok"
    /\ q_last.canceled = <<[index |-> 0, plane_handles |-> 2], [index |-> 1, plane_handles |-> 1]>>
    /\ AllFree(queue)
    /\ num_queued_buffers(queue) = 0

\* C25 witness of the buffers left alone: stream_off canceled buffer 1 while
\* the client holds buffer 0 in PreQueue.
C25_KeepsHeld ==
    /\ q_last.op = "stream_off"
    /\ q_last.err = "Ok"
    /\ Len(q_last.canceled) = 1
    /\ num_buffers(queue) = 2
    /\ queue.buffer_info[0] = PreQueue
    /\ queue.buffer_info[1] = Free

\* C30: when the driver refuses STREAMOFF, stream_off returns the error and
\* leaves every buffer state and num_queued_buffers unchanged: no Queued
\* buffer becomes Free and no plane handles are taken.
C30_RefusedStreamOffChangesNothing ==
    [][ /\ (queue.state = "BuffersAllocated" =>
              stream_off(queue, FALSE) = [err |-> "StreamOffError", queue |-> queue, canceled |-> <<>>])
        /\ (q_last'.op = "stream_off" /\ q_last'.err # "Ok" =>
              /\ q_last'.err = "StreamOffError"
              /\ q_last'.canceled = <<>>
              /\ queue' = queue
              /\ q_driver' = q_driver)
      ]_vars

\* C30 witness: a refused stream_off on a streaming queue with a Queued
\* buffer, which is still Queued with its handles.
C30_Witness ==
    /\ q_last.op = "stream_off"
    /\ q_last.err = "StreamOffError"
    /\ q_driver.streaming
    /\ num_buffers(queue) = 2
    /\ queue.buffer_info[1] = Queued(2)
    /\ num_queued_buffers(queue) = 1

\* C24: a try_dequeue that returns Ok or CorruptedBuffer moves exactly the
\* buffer the driver named from Queued(handles) to Dequeued, decrements
\* num_queued_buffers by 1, returns a DQBuffer with the plane handles that
\* buffer was queued with and with an armed fuse on that buffer, and changes
\* no other buffer; NotReady, EOS and IoctlError are returned with no change
\* of state or counter.
C24_DequeueFrame ==
    [][ QCall("try_dequeue") =>
          IF q_last'.err \in {"Ok", "CorruptedBuffer"}
          THEN LET id == q_last'.index
               IN /\ q_driver.done # <<>>
                  /\ id = Head(q_driver.done)
                  /\ queue.buffer_info[id].st = "Queued"
                  /\ queue' = [queue EXCEPT !.buffer_info[id] = Dequeued,
                                            !.num_queued_buffers = @ - 1]
                  /\ q_last'.plane_handles = queue.buffer_info[id].plane_handles
                  /\ q_last'.weak = [alloc |-> queue.alloc, index |-> id]
                  /\ q_dqbufs' = [q_dqbufs EXCEPT ![<<queue.alloc, id>>] = @ + 1]
                  /\ trigger(queue', BufferStateFuse(q_last'.weak)) =
                        [queue' EXCEPT !.buffer_info[id] = Free]
          ELSE /\ q_last'.err \in {"NotReady", "EOS", "IoctlError"}
               /\ queue' = queue
               /\ q_dqbufs' = q_dqbufs
      ]_vars

\* C24 witness: buffer 1, queued with handles 2, was dequeued with the error
\* flag while buffer 0 stays Queued with handles 1.
C24_Witness ==
    /\ q_last.op = "try_dequeue"
    /\ q_last.err = "CorruptedBuffer"
    /\ q_last.index = 1
    /\ q_last.plane_handles = 2
    /\ num_buffers(queue) = 2
    /\ queue.buffer_info[0] = Queued(1)
    /\ queue.buffer_info[1] = Dequeued
    /\ num_queued_buffers(queue) = 1

\* C24 witness of the plain errors: try_dequeue returned NotReady while a
\* buffer is Queued.
C24_NotReady ==
    /\ q_last.op = "try_dequeue"
    /\ q_last.err = "NotReady"
    /\ num_queued_buffers(queue) = 1

\* C26: try_get_buffer(index) returns Ok exactly when index < num_buffers
\* and buffer index is Free, and then moves only that buffer to PreQueue; it
\* returns InvalidIndex when index >= num_buffers and AlreadyUsed when the
\* buffer is PreQueue, Queued or Dequeued, and then changes no buffer state
\* and no counter.
C26_TryGetBufferByIndex ==
    [][ /\ (queue.state = "BuffersAllocated" =>
              \A index \in 0 .. MaxBuffers :
                 LET r == try_get_buffer(queue, index)
                 IN /\ (r.err = "Ok") =
                          (index < num_buffers(queue) /\ queue.buffer_info[index].st = "Free")
                    /\ (r.err = "InvalidIndex") = (index >= num_buffers(queue))
                    /\ (r.err = "AlreadyUsed") =
                          (index < num_buffers(queue)
                             /\ queue.buffer_info[index].st \in {"PreQueue", "Queued", "Dequeued"})
                    /\ r.queue = IF r.err = "Ok"
                                 THEN [queue EXCEPT !.buffer_info[index] = PreQueue]
                                 ELSE queue)
        /\ (q_last'.op = "try_get_buffer" =>
              /\ queue' = try_get_buffer(queue, q_last'.index).queue
              /\ q_last'.err = try_get_buffer(queue, q_last'.index).err
              /\ q_last'.err # "Ok" => UNCHANGED <<queue, q_qbufs, q_dqbufs, q_driver>>)
      ]_vars

\* C26 witness: try_get_buffer(0) was refused with AlreadyUsed on a buffer
\* the client holds as a DQBuffer, while buffer 1 is Queued.
C26_Witness ==
    /\ q_last.op = "try_get_buffer"
    /\ q_last.index = 0
    /\ q_last.err = "AlreadyUsed"
    /\ num_buffers(queue) = 2
    /\ queue.buffer_info[0] = Dequeued
    /\ queue.buffer_info[1].st = "Queued"

\* C26 witness of the index check: try_get_buffer(1) on a queue of one
\* buffer.
C26_InvalidIndex ==
    /\ q_last.op = "try_get_buffer"
    /\ q_last.index = 1
    /\ q_last.err = "InvalidIndex"
    /\ num_buffers(queue) = 1

\* C26 witness of the success: try_get_buffer(1) took the Free buffer 1.
C26_Taken ==
    /\ q_last.op = "try_get_buffer"
    /\ q_last.index = 1
    /\ q_last.err = "Ok"
    /\ queue.buffer_info[1] = PreQueue
    /\ queue.buffer_info[0] = Free

\* The Free buffers of q.
FreeIn(q) == {i \in DOMAIN q.buffer_info : q.buffer_info[i].st = "Free"}

\* C27: try_get_free_buffer returns the lowest-index Free buffer and moves it
\* to PreQueue, and returns NoFreeBuffer exactly when no buffer is Free,
\* changing nothing; taken lock by lock with another thread dropping
\* DQBuffers of the queue in between, the buffer find stopped at is still
\* Free when try_get_buffer is called, so that call returns Ok and moves it
\* to PreQueue, the buffer returned is the one the call on the current queue
\* gives unless a buffer of lower index was freed meanwhile, and a call
\* that returns NoFreeBuffer changes nothing.
C27_FreeBufferLowestIndex ==
    [][ /\ (queue.state = "BuffersAllocated" =>
              LET r == try_get_free_buffer(queue)
              IN IF FreeIn(queue) = {}
                 THEN r.err = "NoFreeBuffer" /\ r.queue = queue
                 ELSE /\ r.err = "Ok"
                      /\ r.index \in FreeIn(queue)
                      /\ \A j \in FreeIn(queue) : r.index <= j
                      /\ r.queue = [queue EXCEPT !.buffer_info[r.index] = PreQueue])
        /\ (q_scan.pc = "found" =>
              /\ queue.state = "BuffersAllocated"
              /\ q_scan.pos \in FreeIn(queue))
        /\ (q_scan.pc = "found" /\ q_scan'.pc = "idle" =>
              /\ q_last'.err = "Ok"
              /\ q_last'.index = q_scan.pos
              /\ queue' = [queue EXCEPT !.buffer_info[q_scan.pos] = PreQueue]
              /\ LET r == try_get_free_buffer(queue)
                 IN r.index <= q_scan.pos /\ (r.index = q_scan.pos => r.queue = queue'))
        /\ (q_scan.pc = "find" /\ q_scan'.pc = "idle" =>
              /\ q_last'.err = "NoFreeBuffer"
              /\ UNCHANGED <<queue, q_qbufs, q_dqbufs>>)
      ]_vars

\* C27 witness: the call returned buffer 1 although buffer 0 is Free: buffer
\* 0 was freed by the other thread's drop after find had passed it.
C27_Witness ==
    /\ q_last.op = "try_get_free_buffer"
    /\ q_last.err = "Ok"
    /\ q_last.index = 1
    /\ num_buffers(queue) = 2
    /\ queue.buffer_info[0] = Free
    /\ queue.buffer_info[1] = PreQueue

\* C27 witness of NoFreeBuffer: the call found both buffers in use.
C27_NoFreeBuffer ==
    /\ q_last.op = "try_get_free_buffer"
    /\ q_last.err = "NoFreeBuffer"
    /\ num_buffers(queue) = 2
    /\ FreeIn(queue) = {}

\* The worker ended in the unwrap of a failed process_events: the CAPTURE
\* queue it held was in Init, or freed by the failed update, when it was
\* dropped.
UpdateFailed ==
    wpc = "panicked" /\ capture_queue.state = "Dropped" /\ num_buffers(capture_queue) = 0

\* C23: after update_capture_resolution failed in the worker, the worker no
\* longer polls and a stop() that follows joins it and returns: it neither
\* panics nor stays in join.
C23_UpdateFailureObservable ==
    [][ /\ (wpc = "process_events" /\ capture_queue'.state = "Dropped" =>
              wpc' \in {"exited", "panicked"})
        /\ (UpdateFailed /\ cpc = "join" => cpc' \in {"join", "Ok"})
      ]_vars

\* C28: the worker handles a DEVICE_CAPTURE event only in Decoding with a
\* buffer Queued and completed by the driver, and the try_dequeue that
\* follows returns Ok with a buffer, so that process_capture_buffer does not
\* panic.
C28_CaptureHandlerNeverPanics ==
    [][ wpc = "process_capture_buffer" =>
          /\ capture_queue.state = "BuffersAllocated"
          /\ num_queued_buffers(capture_queue) >= 1
          /\ c_driver.done # <<>>
          /\ capture_queue.buffer_info[Head(c_driver.done)].st = "Queued"
          /\ wpc' # "panicked"
      ]_vars

\* C29: when start returned an error no worker thread is left: the session
\* that start consumed has no thread running, waiting in poll or ended.
C29_FailedStartLeavesNoWorker ==
    [][ (phase = "OutputBuffersAllocated" /\ phase' = "Failed") => wpc' = "none" ]_vars

\* The session is in the Decoding phase and no public operation is running.
BetweenOperations == phase = "Decoding" /\ cpc = "idle"

\* C31: between public operations of the session in the Decoding phase every
\* OUTPUT buffer is Free or Queued, except the PreQueue ones held by an
\* OutputBuffer the client got from get_buffer / try_get_free_buffer and has
\* not yet submitted or dropped; no OUTPUT buffer is left Dequeued once
\* get_buffer or try_get_free_buffer has returned; hence when
\* num_queued_buffers = num_buffers at the entry of get_buffer no OUTPUT
\* buffer is Free.
C31_OutputBuffersFreeOrQueued ==
    BetweenOperations =>
        /\ \A i \in DOMAIN output_queue.buffer_info :
              LET st == output_queue.buffer_info[i].st
              IN /\ st # "Dequeued"
                 /\ \/ st \in {"Free", "Queued"}
                    \/ (st = "PreQueue" /\ o_qbufs[i] > 0)
        /\ (AllOutputQueued => CountState(output_queue, "Free") = 0)

=============================================================================
